---- MODULE Spec2Model ----
(***************************************************************************)
(* A model of the skill-verification pipeline of TrustChain                *)
(* (backend/skill_verifier): the cache-wrapped GitHub client and the       *)
(* cross-repository aggregation of github_service.py, the LLM-backed       *)
(* verifier, its deterministic fallback and the verification hash of       *)
(* skill_analyzer.py, and the LLM-backed extractor of resume_parser.py.    *)
(*                                                                         *)
(* Conventions.                                                            *)
(*  - A Python str is a string; str.lower(), sorted() and ",".join() are   *)
(*    computed on it character by character.                               *)
(*  - A Python float that the code rounds to two decimals is an integer    *)
(*    number of hundredths; an unrounded quotient is an exact fraction     *)
(*    [num, den] in lowest terms.                                          *)
(*  - The Django cache is one mapping key -> [value, expiry] read against  *)
(*    the clock `now`.                                                     *)
(***************************************************************************)
EXTENDS Integers, Sequences, FiniteSets, TLC

VARIABLES
    now,        \* the clock the cache's expiry times are read against
    cache,      \* django.core.cache.cache: key -> [value, expiry]
    input,      \* the arguments the operations are called with
    op,         \* the operation that ran last ("init" before any)
    outcome,    \* what the external collaborators answered during that operation
    result,     \* the value it returned to its caller
    trace,      \* what it did on the way: cache hit, external requests issued
    disk        \* the clone directories on local disk: path -> repository cloned

vars == <<now, cache, input, op, outcome, result, trace, disk>>

-----------------------------------------------------------------------------
(* Bounds of the model *)

MaxSkills == 2      \* longest skill list handed to the verifier / hasher
MaxTime == 2        \* the clock runs from 0 to MaxTime
MaxTokens == 5      \* longest LLM completion text, in tokens
MaxRepos == 2       \* most repositories the host lists for the user
MaxCalls == 2       \* most calls made to the GitHub service
MaxLanguages == 31  \* most languages of a language -> bytes mapping
MaxEntries == 3     \* most per-repository entries handed to the aggregation
MaxFunctions == 12  \* most functions lizard finds in the files of a repository
MaxFiles == 502     \* most files in one directory of a clone

-----------------------------------------------------------------------------
(* Python values *)

None == [k |-> "None"]

\* The printable ASCII characters in code-point order, from 32 (space) to 126 (~);
\* the backtick (96) is spelled out.
Ascii ==
    << " ", "!", "\"", "#", "$", "%", "&", "'", "(", ")", "*", "+", ",", "-", ".", "/",
       "0", "1", "2", "3", "4", "5", "6", "7", "8", "9", ":", ";", "<", "=", ">", "?",
       "@", "A", "B", "C", "D", "E", "F", "G", "H", "I", "J", "K", "L", "M", "N", "O",
       "P", "Q", "R", "S", "T", "U", "V", "W", "X", "Y", "Z", "[", "\\", "]", "^", "_",
       "BACKTICK", "a", "b", "c", "d", "e", "f", "g", "h", "i", "j", "k", "l", "m", "n", "o",
       "p", "q", "r", "s", "t", "u", "v", "w", "x", "y", "z", "{", "|", "}", "~" >>

OrdOf == [c \in {Ascii[i] : i \in 1..Len(Ascii)} |->
            31 + (CHOOSE i \in 1..Len(Ascii) : Ascii[i] = c)]

Ord(c) == OrdOf[c]

Chr(n) == Ascii[n - 31]

\* str.lower() on one character: 'A'..'Z' (65..90) move to 'a'..'z'.
LowerChar(c) == IF Ord(c) >= 65 /\ Ord(c) <= 90 THEN Chr(Ord(c) + 32) ELSE c

\* str.lower()
RECURSIVE Lower(_)
Lower(s) ==
    IF Len(s) = 0 THEN ""
    ELSE LowerChar(SubSeq(s, 1, 1)) \o Lower(SubSeq(s, 2, Len(s)))

\* [f(x) for x in xs]
MapSeq(f(_), xs) == [i \in 1..Len(xs) |-> f(xs[i])]

\* [x for x in xs if keep(x)]
RECURSIVE FilterSeq(_, _)
FilterSeq(keep(_), xs) ==
    IF xs = <<>> THEN <<>>
    ELSE IF keep(Head(xs)) THEN <<Head(xs)>> \o FilterSeq(keep, Tail(xs))
    ELSE FilterSeq(keep, Tail(xs))

\* set(xs)
SetOf(xs) == {xs[i] : i \in 1..Len(xs)}

RECURSIVE Gcd(_, _)
Gcd(a, b) == IF b = 0 THEN a ELSE Gcd(b, a % b)

\* The exact value n / d (d > 0, n >= 0) of a float quotient, in lowest terms.
Frac(n, d) == LET g == Gcd(n, d) IN [num |-> n \div g, den |-> d \div g]

\* JSON / Python values as they travel through the verifier and the cache.
JArr(items) == [k |-> "list", items |-> items]
JSetList(elems) == [k |-> "list_of_set", elems |-> elems]
JNum(q) == [k |-> "number", q |-> q]
JStr(s) == [k |-> "str", s |-> s]
JObj(fields) == [k |-> "dict", fields |-> fields]

-----------------------------------------------------------------------------
(* django.core.cache: get / set with a timeout *)

EmptyCache == [key \in {} |-> None]

\* No clone directory on disk
EmptyDisk == [path \in {} |-> ""]

\* cache.get(key): the stored value, None once the entry has expired.
CacheGet(c, key, t) ==
    IF key \in DOMAIN c /\ t < c[key].expiry THEN c[key].value ELSE None

\* cache.set(key, value, timeout): creates or overwrites the entry.
CacheSet(c, key, value, timeout, t) ==
    [k \in DOMAIN c \cup {key} |->
        IF k = key THEN [value |-> value, expiry |-> t + timeout] ELSE c[k]]

-----------------------------------------------------------------------------
(* skill_analyzer.py: SkillAnalyzer *)

\* settings.VERIFICATION_CACHE_TIMEOUT, in ticks of the clock
VERIFICATION_CACHE_TIMEOUT == 1

\* ", ".join(xs), as json.dumps writes a list's elements
RECURSIVE JoinWith(_, _)
JoinWith(sep, xs) ==
    IF xs = <<>> THEN ""
    ELSE IF Len(xs) = 1 THEN xs[1]
    ELSE xs[1] \o sep \o JoinWith(sep, Tail(xs))

Quoted(s) == "\"" \o s \o "\""

\* hashlib.md5(json.dumps(arg, sort_keys=True).encode()).hexdigest() of a list of
\* strings; the digest is taken to be injective and stands as the dumped text.
Md5OfJson(xs) == "[" \o JoinWith(", ", MapSeq(Quoted, xs)) \o "]"

\* SkillAnalyzer._get_cache_key(method_name, resume_skills, github_skills); the
\* keys of the model stay under the 250 characters beyond which the key is hashed.
AnalyzerCacheKey(method_name, resume_skills, github_skills) ==
    method_name \o "_" \o Md5OfJson(resume_skills) \o "_" \o Md5OfJson(github_skills)

\* resume_skills_lower, github_skills_lower
SkillsLower(skills) == MapSeq(Lower, skills)

\* common_skills = list(set(resume_skills_lower) & set(github_skills_lower)):
\* a list in the set's iteration order, kept as the set of its elements.
CommonSkills(resume_skills, github_skills) ==
    SetOf(SkillsLower(resume_skills)) \cap SetOf(SkillsLower(github_skills))

UnverifiedSkillsCaseSensitive(resume_skills, github_skills) ==
    LET keep(skill) == skill \notin SetOf(github_skills)
    IN  FilterSeq(keep, resume_skills)

\* unverified_skills
UnverifiedSkills(resume_skills, github_skills) ==
    LET github_skills_lower == SkillsLower(github_skills)
        keep(skill) == Lower(skill) \notin SetOf(github_skills_lower)
    IN  FilterSeq(keep, resume_skills)

\* additional_skills
AdditionalSkills(resume_skills, github_skills) ==
    LET resume_skills_lower == SkillsLower(resume_skills)
        keep(skill) == Lower(skill) \notin SetOf(resume_skills_lower)
    IN  FilterSeq(keep, github_skills)

VerificationPercentageEmptyIs100(common_skills, resume_skills) ==
    IF resume_skills # <<>>
    THEN Frac(Cardinality(common_skills) * 100, Len(resume_skills))
    ELSE Frac(100, 1)

\* len(common_skills) / len(resume_skills) * 100 if resume_skills else 0
VerificationPercentage(common_skills, resume_skills) ==
    IF resume_skills # <<>>
    THEN Frac(Cardinality(common_skills) * 100, Len(resume_skills))
    ELSE Frac(0, 1)

\* SkillAnalyzer.basic_skill_verification
basic_skill_verification(resume_skills, github_skills) ==
    LET common_skills == CommonSkills(resume_skills, github_skills)
    IN  JObj([verified_skills |-> JSetList(common_skills),
              unverified_skills |-> JArr(UnverifiedSkills(resume_skills, github_skills)),
              additional_skills |-> JArr(AdditionalSkills(resume_skills, github_skills)),
              verification_percentage |->
                  JNum(VerificationPercentage(common_skills, resume_skills)),
              explanation |->
                  JStr("Basic comparison performed. This is a fallback method.")])

\* a < b for two strings, as Python orders them: by code point, a proper prefix
\* before the longer string.
RECURSIVE StrLess(_, _)
StrLess(a, b) ==
    IF Len(b) = 0 THEN FALSE
    ELSE IF Len(a) = 0 THEN TRUE
    ELSE IF SubSeq(a, 1, 1) # SubSeq(b, 1, 1)
    THEN Ord(SubSeq(a, 1, 1)) < Ord(SubSeq(b, 1, 1))
    ELSE StrLess(SubSeq(a, 2, Len(a)), SubSeq(b, 2, Len(b)))

\* x put into the sorted list xs, after the elements not greater than it.
RECURSIVE Insert(_, _)
Insert(x, xs) ==
    IF xs = <<>> THEN <<x>>
    ELSE IF StrLess(x, Head(xs)) THEN <<x>> \o xs
    ELSE <<Head(xs)>> \o Insert(x, Tail(xs))

\* sorted(xs), for a list of strings
RECURSIVE Sorted(_)
Sorted(xs) ==
    IF xs = <<>> THEN <<>>
    ELSE Insert(xs[Len(xs)], Sorted(SubSeq(xs, 1, Len(xs) - 1)))

\* settings.SECRET_KEY
SECRET_KEY == "django-insecure-key"

\* hashlib.sha256(data.encode()).hexdigest(): the digest is taken to be
\* injective on its input and stands as the tagged input.
Sha256Hex(data) == [sha256 |-> data]

SkillsStringUnsorted(verified_skills) ==
    JoinWith(",", MapSeq(Lower, verified_skills))

\* skills_string = ",".join(sorted([skill.lower() for skill in verified_skills]))
SkillsString(verified_skills) ==
    JoinWith(",", Sorted(MapSeq(Lower, verified_skills)))

\* SkillAnalyzer.generate_verification_hash
generate_verification_hash(github_username, verified_skills) ==
    LET skills_string == SkillsString(verified_skills)
        data_to_hash == github_username \o ":" \o skills_string \o ":" \o SECRET_KEY
    IN  Sha256Hex(data_to_hash)

-----------------------------------------------------------------------------
(* The text of an LLM completion, as far as the parsers look at it: a sequence
   of code-fence markers, whitespace, literals and prose. *)

FenceJson == [t |-> "fence_json"]       \* three backticks followed by json
Fence == [t |-> "fence"]                \* three backticks
Ws == [t |-> "whitespace"]              \* a newline or a blank
Prose == [t |-> "prose"]                \* words that are no literal of any syntax
\* The text of one literal with value v; syntax says which parsers read it:
\* "json" (null, true), "python" (single-quoted strings, tuples) or "both".
Lit(v, syntax) == [t |-> "literal", v |-> v, syntax |-> syntax]

Raised == [k |-> "raise"]

\* str.strip()
RECURSIVE LStrip(_)
LStrip(text) ==
    IF text # <<>> /\ Head(text) = Ws THEN LStrip(Tail(text)) ELSE text

RECURSIVE RStrip(_)
RStrip(text) ==
    IF text # <<>> /\ text[Len(text)] = Ws
    THEN RStrip(SubSeq(text, 1, Len(text) - 1))
    ELSE text

Strip(text) == RStrip(LStrip(text))

\* text.replace(three backticks + "json", "")
ReplaceFenceJson(text) == LET keep(tok) == tok # FenceJson IN FilterSeq(keep, text)

\* text.replace(three backticks, ""): of a json fence the word json is left over.
ReplaceFence(text) ==
    LET keep(tok) == tok # Fence
        rest(tok) == IF tok = FenceJson THEN Prose ELSE tok
    IN  MapSeq(rest, FilterSeq(keep, text))

\* text.replace("```json", "").replace("```", "").strip()
CleanUp(text) == Strip(ReplaceFence(ReplaceFenceJson(text)))

\* json.loads(text): the value of the one JSON literal the text is, or an error.
JsonLoads(text) ==
    IF Len(text) = 1 /\ text[1].t = "literal" /\ text[1].syntax \in {"json", "both"}
    THEN text[1].v
    ELSE Raised

\* eval(text): the value of the one Python literal the text is, or an error
\* (SyntaxError on prose or an empty text, NameError on null / true / false).
Eval(text) ==
    IF Len(text) = 1 /\ text[1].t = "literal" /\ text[1].syntax \in {"python", "both"}
    THEN text[1].v
    ELSE Raised

\* An LLM completion call: it raises, or it returns a response with this content.
LLMRaises == [raised |-> TRUE]
LLMReturns(content) == [raised |-> FALSE, content |-> content]

\* sub in s, for two strings
Contains(s, sub) ==
    \E i \in 1..(Len(s) - Len(sub) + 1) : SubSeq(s, i, i + Len(sub) - 1) = sub

required_keys ==
    <<"verified_skills", "unverified_skills", "additional_skills",
      "verification_percentage", "explanation">>

\* key not in result, for a parsed dict, list or str
KeyNotIn(key, parsed) ==
    CASE parsed.k = "dict" -> key \notin DOMAIN parsed.fields
      [] parsed.k = "list" -> key \notin SetOf(parsed.items)
      [] parsed.k = "str" -> ~Contains(parsed.s, key)

\* The value backfilled for a missing key.
DefaultFor(key) ==
    IF key = "explanation" THEN JStr("No explanation provided")
    ELSE IF Contains(key, "skills") THEN JArr(<<>>) ELSE JNum(Frac(0, 1))

\* The loop "for key in required_keys: if key not in result: result[key] = ...":
\* the parsed value with its missing keys backfilled, or Raised when Python
\* raises TypeError: a number, a boolean or None has no membership test, and
\* only a dict supports assignment by a string key.
EnsureRequiredKeys(parsed) ==
    IF parsed.k \notin {"dict", "list", "str"} THEN Raised
    ELSE LET missing == {key \in SetOf(required_keys) : KeyNotIn(key, parsed)}
         IN  IF missing = {} THEN parsed
             ELSE IF parsed.k # "dict" THEN Raised
             ELSE JObj([key \in DOMAIN parsed.fields \cup missing |->
                         IF key \in missing THEN DefaultFor(key)
                         ELSE parsed.fields[key]])

LLMErrorFallbackEmpty(resume_skills, github_skills) ==
    basic_skill_verification(<<>>, <<>>)

\* except Exception (the completion call raised): fall back to basic verification
LLMErrorFallback(resume_skills, github_skills) ==
    basic_skill_verification(resume_skills, github_skills)

\* except Exception (the response did not parse): fall back to basic verification
ParseErrorFallback(resume_skills, github_skills) ==
    basic_skill_verification(resume_skills, github_skills)

\* SkillAnalyzer.verify_skills_with_llm on cache c at time t, the completion call
\* answering llm: the value returned, the cache afterwards, whether the cache
\* was hit, and the number of completion requests issued.
verify_skills_with_llm(c, t, resume_skills, github_skills, llm) ==
    LET cache_key == AnalyzerCacheKey("verify_skills_llm", resume_skills, github_skills)
        cached_result == CacheGet(c, cache_key, t)
        parsed == JsonLoads(CleanUp(Strip(llm.content)))
        backfilled == IF parsed = Raised THEN Raised ELSE EnsureRequiredKeys(parsed)
    IN  IF cached_result # None
        THEN [val |-> cached_result, cache |-> c, hit |-> TRUE, llm_requests |-> 0]
        ELSE IF llm.raised
        THEN [val |-> LLMErrorFallback(resume_skills, github_skills),
              cache |-> c, hit |-> FALSE, llm_requests |-> 1]
        ELSE IF backfilled = Raised
        THEN [val |-> ParseErrorFallback(resume_skills, github_skills),
              cache |-> c, hit |-> FALSE, llm_requests |-> 1]
        ELSE [val |-> backfilled,
              cache |-> CacheSet(c, cache_key, backfilled, VERIFICATION_CACHE_TIMEOUT, t),
              hit |-> FALSE, llm_requests |-> 1]

-----------------------------------------------------------------------------
(* Python dicts and Counters of github_service.py: the keys in insertion order
   and the value at each key *)

Dict(order, at) == [k |-> "dict", order |-> order, at |-> at]

EmptyDict == Dict(<<>>, [key \in {} |-> 0])

\* d[key] = value
DictSet(d, key, value) ==
    Dict(IF key \in DOMAIN d.at THEN d.order ELSE Append(d.order, key),
         [x \in DOMAIN d.at \cup {key} |-> IF x = key THEN value ELSE d.at[x]])

\* counter[key] += n
CounterAdd(d, key, n) ==
    DictSet(d, key, (IF key \in DOMAIN d.at THEN d.at[key] ELSE 0) + n)

\* for key, n in other.items(): counter[key] += n
RECURSIVE CounterAddAll(_, _, _)
CounterAddAll(d, other, i) ==
    IF i > Len(other.order) THEN d
    ELSE CounterAddAll(CounterAdd(d, other.order[i], other.at[other.order[i]]), other, i + 1)

\* sum(xs)
RECURSIVE SumSeq(_)
SumSeq(xs) == IF xs = <<>> THEN 0 ELSE Head(xs) + SumSeq(Tail(xs))

\* sum(d.values())
DictTotal(d) == SumSeq([i \in 1..Len(d.order) |-> d.at[d.order[i]]])

\* sorted(items, key=count, reverse=True): the keys by descending count, the
\* sort being stable; the key at rank r is the one with r - 1 keys before it.
SortByCount(keys, at) ==
    LET Before(i, j) == at[keys[i]] > at[keys[j]] \/ (at[keys[i]] = at[keys[j]] /\ i < j)
        Rank(j) == Cardinality({i \in 1..Len(keys) : Before(i, j)}) + 1
    IN  [r \in 1..Len(keys) |-> keys[CHOOSE j \in 1..Len(keys) : Rank(j) = r]]

\* Counter.most_common(): the keys by descending count, equal counts in
\* insertion order.
MostCommon(d) == SortByCount(d.order, d.at)

\* dict(counter.most_common(n))
MostCommonDict(d, n) ==
    LET keys == MostCommon(d)
        kept == SubSeq(keys, 1, IF Len(keys) < n THEN Len(keys) ELSE n)
    IN  Dict(kept, [key \in SetOf(kept) |-> d.at[key]])

\* n / d rounded to the nearest integer, a tie to the even neighbour (the value
\* round() gives for a quotient it can represent).
RoundHalfEven(n, d) ==
    LET q == n \div d
        r == n % d
    IN  IF 2 * r < d THEN q
        ELSE IF 2 * r > d THEN q + 1
        ELSE IF q % 2 = 0 THEN q ELSE q + 1

\* round(n / d, 2) in hundredths for n given in hundredths, round(n / d * 100, 2)
\* for n given in ten-thousandths: a ZeroDivisionError when d = 0.
RoundedQuotient(n, d) ==
    IF d = 0 THEN [raised |-> TRUE, v |-> 0]
    ELSE [raised |-> FALSE, v |-> RoundHalfEven(n, d)]

-----------------------------------------------------------------------------
(* github_service.py: the per-repository skill metrics and the cross-repository
   summary *)

\* the 10 of most_common(10) and of [:10]
TopLibraries == 10

PercentageTruncated(bytes_count, total_bytes) ==
    (bytes_count * 10000) \div total_bytes

\* round((bytes_count / total_bytes) * 100, 2), in hundredths of a percent
Percentage(bytes_count, total_bytes) ==
    RoundedQuotient(bytes_count * 10000, total_bytes).v

\* The language part of _generate_skill_metrics: skills['languages']
SkillLanguages(languages) ==
    LET total_bytes == IF languages.order # <<>> THEN DictTotal(languages) ELSE 0
    IN  IF total_bytes > 0
        THEN Dict(languages.order,
                  [lang \in DOMAIN languages.at |->
                      [bytes |-> languages.at[lang],
                       percentage |-> Percentage(languages.at[lang], total_bytes)]])
        ELSE EmptyDict

\* GitHubService._generate_skill_metrics
generate_skill_metrics(analysis_data) ==
    [languages |-> SkillLanguages(analysis_data.basic_info.languages),
     frameworks |-> analysis_data.patterns.frameworks,
     practices |-> [testing |-> analysis_data.patterns.has_tests,
                    ci_cd |-> analysis_data.patterns.has_ci,
                    documentation |-> analysis_data.patterns.has_docs,
                    code_quality |-> analysis_data.patterns.has_linter],
     paradigms |-> [object_oriented |-> analysis_data.patterns.uses_oop,
                    functional |-> analysis_data.patterns.uses_functional],
     code_metrics |-> [complexity |-> analysis_data.complexity.summary.avg_complexity,
                       function_size |-> analysis_data.complexity.summary.avg_nloc,
                       function_count |-> analysis_data.complexity.summary.total_functions],
     libraries |-> SubSeq(analysis_data.libraries.order, 1,
                          IF Len(analysis_data.libraries.order) < TopLibraries
                          THEN Len(analysis_data.libraries.order) ELSE TopLibraries)]

\* "Skip repos that couldn't be analyzed": the entries the loop does not skip
Analyzed(repos) == LET keep(repo) == "error" \notin DOMAIN repo IN FilterSeq(keep, repos)

\* all_languages after the loop
RECURSIVE AllLanguages(_)
AllLanguages(repos) ==
    IF repos = <<>> THEN EmptyDict
    ELSE CounterAddAll(AllLanguages(SubSeq(repos, 1, Len(repos) - 1)),
                       repos[Len(repos)].basic_info.languages, 1)

\* all_libraries after the loop
RECURSIVE AllLibraries(_)
AllLibraries(repos) ==
    IF repos = <<>> THEN EmptyDict
    ELSE CounterAddAll(AllLibraries(SubSeq(repos, 1, Len(repos) - 1)),
                       repos[Len(repos)].libraries, 1)

\* set(all_frameworks)
AllFrameworks(repos) ==
    UNION {SetOf(repos[i].patterns.frameworks) : i \in 1..Len(repos)}

\* The repositories whose summary enters code_metrics
WithFunctions(repos) ==
    LET keep(repo) == repo.complexity.summary.total_functions > 0
    IN  FilterSeq(keep, repos)

\* language_percentages
LanguagePercentages(all_languages) ==
    LET total_bytes == DictTotal(all_languages)
        order == MostCommon(all_languages)
    IN  IF total_bytes > 0
        THEN Dict(order,
                  [lang \in DOMAIN all_languages.at |->
                      [bytes |-> all_languages.at[lang],
                       percentage |-> Percentage(all_languages.at[lang], total_bytes)]])
        ELSE EmptyDict

AverageOfUnguarded(xs) == RoundedQuotient(SumSeq(xs), Len(xs))

\* round(sum(xs) / len(xs), 2) if xs else 0
AverageOf(xs) ==
    IF xs # <<>> THEN RoundedQuotient(SumSeq(xs), Len(xs)) ELSE [raised |-> FALSE, v |-> 0]

PracticeNames == {"testing", "ci_cd", "documentation", "code_quality", "oop", "functional"}

\* patterns.get(flag, False) for the flag a practice counts
PracticeFlag(patterns, practice) ==
    CASE practice = "testing" -> patterns.has_tests
      [] practice = "ci_cd" -> patterns.has_ci
      [] practice = "documentation" -> patterns.has_docs
      [] practice = "code_quality" -> patterns.has_linter
      [] practice = "oop" -> patterns.uses_oop
      [] practice = "functional" -> patterns.uses_functional

\* practices[practice] after the loop
PracticeCount(repos, practice) ==
    Cardinality({i \in 1..Len(repos) : PracticeFlag(repos[i].patterns, practice)})

\* repo_count = len(github_data['repos'])
RepoCount(github_repos) == Len(github_repos)

\* practice_percentages
PracticePercentages(analyzed, repo_count) ==
    IF repo_count > 0
    THEN [practice \in PracticeNames |->
            RoundedQuotient(PracticeCount(analyzed, practice) * 10000, repo_count).v]
    ELSE [practice \in {} |-> 0]

\* The aggregation of generate_skills_summary over github_data['repos']: the
\* summary, or Raised if a division by zero is met.
SkillsSummary(username, github_repos) ==
    LET analyzed == Analyzed(github_repos)
        counted == WithFunctions(analyzed)
        complexity == AverageOf([i \in 1..Len(counted) |->
                                   counted[i].complexity.summary.avg_complexity])
        function_size == AverageOf([i \in 1..Len(counted) |->
                                      counted[i].complexity.summary.avg_nloc])
        repo_count == RepoCount(github_repos)
    IN  IF complexity.raised \/ function_size.raised THEN Raised
        ELSE [user |-> username,
              languages |-> LanguagePercentages(AllLanguages(analyzed)),
              top_libraries |-> MostCommonDict(AllLibraries(analyzed), TopLibraries),
              frameworks |-> AllFrameworks(analyzed),
              code_metrics |->
                  [complexity |-> complexity.v,
                   function_size |-> function_size.v,
                   total_functions |->
                       SumSeq([i \in 1..Len(counted) |->
                                 counted[i].complexity.summary.total_functions])],
              practices |-> PracticePercentages(analyzed, repo_count),
              repo_count |-> repo_count]

-----------------------------------------------------------------------------
(* The inputs and the LLM answers the analyzer is exercised with *)

SkillNames == {"Go", "go", "Rust"}

\* The lists of at most n elements of S
SeqsUpTo(S, n) == UNION {[1..m -> S] : m \in 0..n}

SkillLists == SeqsUpTo(SkillNames, MaxSkills)

CompleteAnswer ==
    JObj([verified_skills |-> JArr(<<"Go">>),
          unverified_skills |-> JArr(<<>>),
          additional_skills |-> JArr(<<"Docker">>),
          verification_percentage |-> JNum(Frac(100, 1)),
          strength_per_skill |-> JObj([Go |-> JNum(Frac(7, 1))]),
          explanation |-> JStr("Go is used in two repositories. Credibility 8/10.")])

PartialAnswer == JObj([verified_skills |-> JArr(<<"Go">>)])

VerifyResponses ==
    { LLMRaises,
      LLMReturns(<<FenceJson, Ws, Lit(CompleteAnswer, "both"), Ws, Fence>>),
      LLMReturns(<<Lit(PartialAnswer, "both"), Ws>>),
      LLMReturns(<<Prose, Ws, Lit(CompleteAnswer, "both")>>),
      LLMReturns(<<Lit(JArr(required_keys), "both")>>),
      LLMReturns(<<Lit(JNum(Frac(50, 1)), "both")>>),
      LLMReturns(<<>>) }

-----------------------------------------------------------------------------
(* The analyzer: verify_skills_with_llm and basic_skill_verification called
   again and again on one pair of skill lists while time passes *)

InitAnalyzer ==
    /\ now = 0
    /\ cache = EmptyCache
    /\ input \in [resume_skills : SkillLists, github_skills : SkillLists]
    /\ op = "init"
    /\ outcome = None
    /\ result = None
    /\ trace = [hit |-> FALSE, llm_requests |-> 0]
    /\ disk = EmptyDisk

VerifySkillsWithLLM ==
    \E llm \in VerifyResponses :
        \E r \in {verify_skills_with_llm(cache, now, input.resume_skills,
                                          input.github_skills, llm)} :
            /\ op' = "verify_skills_with_llm"
            /\ outcome' = IF r.hit THEN None ELSE llm
            /\ result' = r.val
            /\ cache' = r.cache
            /\ trace' = [hit |-> r.hit, llm_requests |-> r.llm_requests]
            /\ UNCHANGED <<now, input, disk>>

BasicSkillVerification ==
    /\ op' = "basic_skill_verification"
    /\ outcome' = None
    /\ result' = basic_skill_verification(input.resume_skills, input.github_skills)
    /\ trace' = [hit |-> FALSE, llm_requests |-> 0]
    /\ UNCHANGED <<now, cache, input, disk>>

\* Time passes: cache entries expire passively.
Tick ==
    /\ now < MaxTime
    /\ now' = now + 1
    /\ UNCHANGED <<cache, input, op, outcome, result, trace, disk>>

NextAnalyzer == VerifySkillsWithLLM \/ BasicSkillVerification \/ Tick

SpecAnalyzer == InitAnalyzer /\ [][NextAnalyzer]_vars

-----------------------------------------------------------------------------
(* Properties of the analyzer *)

BasicReturned == op = "basic_skill_verification"

PercentageOf(res) == res.fields.verification_percentage.q

\* Some resume skill equals some GitHub skill after lower-casing.
SomeSkillMatches ==
    \E i \in 1..Len(input.resume_skills), j \in 1..Len(input.github_skills) :
        Lower(input.resume_skills[i]) = Lower(input.github_skills[j])

\* C1: when the completion call raises on a cache miss, verify_skills_with_llm
\* returns what basic_skill_verification returns for the same two skill lists.
C1_FallbackOnLLMError ==
    (op = "verify_skills_with_llm" /\ ~trace.hit /\ outcome = LLMRaises)
        => result = basic_skill_verification(input.resume_skills, input.github_skills)

C1_Witness ==
    /\ op = "verify_skills_with_llm"
    /\ ~trace.hit
    /\ outcome = LLMRaises
    /\ input.resume_skills = <<"Go", "Rust">>
    /\ input.github_skills = <<"go">>
    /\ result.fields.unverified_skills = JArr(<<"Rust">>)

\* C2 as stated: the percentage of basic_skill_verification is in [0,100] and
\* is 0 exactly when the resume-skill list is empty.
C2_AsStated ==
    BasicReturned =>
        /\ PercentageOf(result).num >= 0
        /\ PercentageOf(result).num <= 100 * PercentageOf(result).den
        /\ (PercentageOf(result).num = 0 <=> input.resume_skills = <<>>)

\* C2 as amended: the percentage of basic_skill_verification is in [0,100], is
\* 0 when the resume-skill list is empty, and is 0 exactly when no resume skill
\* equals a GitHub skill after lower-casing.
C2_PercentageRange ==
    BasicReturned =>
        /\ PercentageOf(result).num >= 0
        /\ PercentageOf(result).num <= 100 * PercentageOf(result).den
        /\ (input.resume_skills = <<>> => PercentageOf(result).num = 0)
        /\ (PercentageOf(result).num = 0 <=> ~SomeSkillMatches)

C2_Witness ==
    /\ BasicReturned
    /\ input.resume_skills = <<>>
    /\ input.github_skills = <<"Go">>
    /\ PercentageOf(result) = Frac(0, 1)

\* C3: every element of the verified_skills of basic_skill_verification is an
\* element of resume_skills, in the resume's casing.
C3_ResumeCasing ==
    BasicReturned =>
        result.fields.verified_skills.elems \subseteq SetOf(input.resume_skills)

\* C4: basic_skill_verification lists a resume skill as unverified iff no GitHub
\* skill equals it after lower-casing, and a GitHub skill as additional iff no
\* resume skill equals it after lower-casing.
C4_CaseInsensitive ==
    BasicReturned =>
        /\ \A i \in 1..Len(input.resume_skills) :
              input.resume_skills[i] \in SetOf(result.fields.unverified_skills.items)
                <=> ~\E j \in 1..Len(input.github_skills) :
                        Lower(input.github_skills[j]) = Lower(input.resume_skills[i])
        /\ \A j \in 1..Len(input.github_skills) :
              input.github_skills[j] \in SetOf(result.fields.additional_skills.items)
                <=> ~\E i \in 1..Len(input.resume_skills) :
                        Lower(input.resume_skills[i]) = Lower(input.github_skills[j])
        /\ SetOf(result.fields.unverified_skills.items) \subseteq SetOf(input.resume_skills)
        /\ SetOf(result.fields.additional_skills.items) \subseteq SetOf(input.github_skills)

C4_Witness ==
    /\ BasicReturned
    /\ input.resume_skills = <<"Go", "Rust">>
    /\ input.github_skills = <<"go">>
    /\ result.fields.unverified_skills = JArr(<<"Rust">>)
    /\ result.fields.additional_skills = JArr(<<>>)

VerifyReturned == op = "verify_skills_with_llm"

\* What json.loads made of the completion the verifier was answered with
ParsedAnswer == JsonLoads(CleanUp(Strip(outcome.content)))

\* C11: every value verify_skills_with_llm returns, on a cache hit, from an LLM
\* answer of any shape or from the fallback, is a mapping that holds the five
\* required keys; a key missing from the parsed LLM object holds [] for a skill
\* list, 0 for the percentage and a text for the explanation.
C11_AllKeysReturned ==
    VerifyReturned =>
        /\ result.k = "dict"
        /\ SetOf(required_keys) \subseteq DOMAIN result.fields
        /\ (~trace.hit /\ ~outcome.raised /\ ParsedAnswer.k = "dict") =>
              \A key \in SetOf(required_keys) \ DOMAIN ParsedAnswer.fields :
                  CASE key = "explanation" -> result.fields[key].k = "str"
                    [] key = "verification_percentage" ->
                          result.fields[key] = JNum(Frac(0, 1))
                    [] OTHER -> result.fields[key] = JArr(<<>>)

\* len() of a list value
SizeOf(list) == IF list.k = "list" THEN Len(list.items) ELSE Cardinality(list.elems)

\* C12: every result mapping verify_skills_with_llm returns, from the LLM or
\* from the fallback, has a verification_percentage in [0,100] that equals
\* (number of verified skills / number of resume skills) * 100, and 0 when the
\* resume-skill list is empty.
C12_PercentageOfVerified ==
    (VerifyReturned /\ result.k = "dict") =>
        LET q == PercentageOf(result)
            verified == SizeOf(result.fields.verified_skills)
        IN  /\ q.num >= 0
            /\ q.num <= 100 * q.den
            /\ q = IF input.resume_skills = <<>> THEN Frac(0, 1)
                   ELSE Frac(verified * 100, Len(input.resume_skills))

\* C21: in basic_skill_verification, when the resume list is not empty and
\* unverified_skills is empty, verification_percentage is 100, also for a
\* resume list with repeated entries or entries that differ only in case; and
\* len(verified_skills) + len(unverified_skills) = len(resume_skills).
C21_AllMatchedIs100 ==
    BasicReturned =>
        /\ (/\ input.resume_skills # <<>>
            /\ result.fields.unverified_skills = JArr(<<>>))
              => PercentageOf(result) = Frac(100, 1)
        /\ SizeOf(result.fields.verified_skills)
              + SizeOf(result.fields.unverified_skills) = Len(input.resume_skills)

-----------------------------------------------------------------------------
(* One invocation of verify_skills_with_llm step by step: the cache lookup and
   the completion request, the wait for the LLM, the answer and the return.
   The call openai.ChatCompletion.create is synchronous: the invocation waits
   in it until the client library hands back a response or raises, its request
   timeout being one of the errors it raises. *)

AwaitingLLM == op = "awaiting_llm"

\* Lines 104-147: a cache hit returns at once; a miss issues the one completion
\* request and waits for its outcome.
CallVerifySkillsWithLLM ==
    /\ ~AwaitingLLM
    /\ LET cache_key == AnalyzerCacheKey("verify_skills_llm", input.resume_skills,
                                         input.github_skills)
           cached_result == CacheGet(cache, cache_key, now)
       IN  IF cached_result # None
           THEN /\ op' = "verify_skills_with_llm"
                /\ result' = cached_result
                /\ trace' = [hit |-> TRUE, llm_requests |-> 0]
           ELSE /\ op' = "awaiting_llm"
                /\ result' = None
                /\ trace' = [hit |-> FALSE, llm_requests |-> 1]
    /\ outcome' = None
    /\ UNCHANGED <<now, cache, input, disk>>

LLMAnswersRetrying ==
    /\ AwaitingLLM
    /\ \E llm \in VerifyResponses :
        \E r \in {verify_skills_with_llm(cache, now, input.resume_skills,
                                          input.github_skills, llm)} :
            /\ outcome' = llm
            /\ IF llm.raised /\ trace.llm_requests < MaxCalls
               THEN /\ trace' = [trace EXCEPT !.llm_requests = @ + 1]
                    /\ UNCHANGED <<op, result, cache>>
               ELSE /\ op' = "verify_skills_with_llm"
                    /\ result' = r.val
                    /\ cache' = r.cache
                    /\ UNCHANGED trace
            /\ UNCHANGED <<now, input, disk>>

\* Lines 148-180: the completion call hands back a response or raises, and the
\* invocation returns the parsed answer or the fallback; no request is issued
\* again.
LLMAnswers ==
    /\ AwaitingLLM
    /\ \E llm \in VerifyResponses :
        \E r \in {verify_skills_with_llm(cache, now, input.resume_skills,
                                          input.github_skills, llm)} :
            /\ op' = "verify_skills_with_llm"
            /\ outcome' = llm
            /\ result' = r.val
            /\ cache' = r.cache
            /\ UNCHANGED <<now, input, trace, disk>>

NextVerifier == CallVerifySkillsWithLLM \/ LLMAnswers \/ Tick

\* The pending completion call ends: the client hands back a response or raises.
SpecVerifier == InitAnalyzer /\ [][NextVerifier]_vars /\ WF_vars(LLMAnswers)

-----------------------------------------------------------------------------
(* The verification hasher: generate_verification_hash called on one user
   name and one list of verified skills *)

Usernames == {"alice", "bob", "alice:go"}

\* Skill names are free text: some hold the characters the hasher joins with.
HashSkillNames == {"Go", "go", "Rust", "rust", "C", "Go,Rust", "go:rust"}

HashSkillLists == SeqsUpTo(HashSkillNames, MaxSkills)

InitHasher ==
    /\ now = 0
    /\ cache = EmptyCache
    /\ input \in [github_username : Usernames, verified_skills : HashSkillLists]
    /\ op = "init"
    /\ outcome = None
    /\ result = None
    /\ trace = None
    /\ disk = EmptyDisk

GenerateVerificationHash ==
    /\ op = "init"
    /\ op' = "generate_verification_hash"
    /\ result' = generate_verification_hash(input.github_username, input.verified_skills)
    /\ UNCHANGED <<now, cache, input, outcome, trace, disk>>

NextHasher == GenerateVerificationHash

SpecHasher == InitHasher /\ [][NextHasher]_vars

\* The number of elements of xs that are s after lower-casing
CountLower(xs, s) == Cardinality({i \in 1..Len(xs) : Lower(xs[i]) = s})

\* xs and ys are equal as lists after lower-casing and sorting: each lower-cased
\* name occurs as often in the one as in the other.
SameSkillsIgnoringCaseAndOrder(xs, ys) ==
    /\ Len(xs) = Len(ys)
    /\ \A i \in 1..Len(xs) : CountLower(xs, Lower(xs[i])) = CountLower(ys, Lower(xs[i]))

\* C5: for a fixed secret the hash is the same for two skill lists that are
\* equal after lower-casing and sorting, and differs for a different user name
\* (the digest being injective on its input string).
C5_HashCaseOrderUser ==
    op = "generate_verification_hash" =>
        /\ \A other_skills \in HashSkillLists :
              SameSkillsIgnoringCaseAndOrder(input.verified_skills, other_skills)
                => generate_verification_hash(input.github_username, other_skills) = result
        /\ \A user2 \in Usernames \ {input.github_username} :
              generate_verification_hash(user2, input.verified_skills) # result

C5_Witness ==
    /\ op = "generate_verification_hash"
    /\ input.github_username = "alice"
    /\ input.verified_skills = <<"Go", "rust">>
    /\ result = generate_verification_hash("alice", <<"Rust", "go">>)
    /\ result = Sha256Hex("alice:go,rust:django-insecure-key")
    /\ result # generate_verification_hash("bob", <<"Go", "rust">>)

\* The sorted lower-cased list of the verified skills
SortedLower(verified_skills) == Sorted(MapSeq(Lower, verified_skills))

\* C22: for a fixed secret, two inputs that differ in the user name or in the
\* sorted lower-cased skill list never give the same string to the digest,
\* also when user names or skill names hold ':' or ','.
C22_PreImageInjective ==
    op = "generate_verification_hash" =>
        \A user2 \in Usernames, other_skills \in HashSkillLists :
            (\/ user2 # input.github_username
             \/ SortedLower(other_skills) # SortedLower(input.verified_skills))
                => generate_verification_hash(user2, other_skills).sha256 # result.sha256

-----------------------------------------------------------------------------
(* resume_parser.py: ResumeParser, extract_skills_using_ai called on one resume
   text, the completion call giving one answer *)

ExtractNoInnerTry(llm) ==
    IF llm.raised THEN JArr(<<>>)
    ELSE LET skills == Eval(CleanUp(Strip(llm.content)))
         IN  IF skills = Raised THEN Raised
             ELSE IF skills.k # "list" THEN JArr(<<>>)
             ELSE skills

\* ResumeParser.extract_skills_using_ai, the completion call answering llm: the
\* list returned, or Raised if an exception reaches the caller. The outer
\* "except Exception" returns [] when the call raises; the inner bare "except"
\* leaves skills = [] when eval raises; a value that is no list is replaced by [].
extract_skills_using_ai(llm) ==
    IF llm.raised THEN JArr(<<>>)
    ELSE LET skills == Eval(CleanUp(Strip(llm.content)))
         IN  IF skills = Raised THEN JArr(<<>>)
             ELSE IF skills.k # "list" THEN JArr(<<>>)
             ELSE skills

\* The tokens an extraction completion is made of
ExtractTokens ==
    { FenceJson, Fence, Ws, Prose,
      Lit(JArr(<<"Go", "Docker">>), "both"),
      Lit(JObj([skills |-> JArr(<<"Go">>)]), "both"),
      Lit(None, "json") }

ExtractResponses ==
    {LLMRaises} \cup {LLMReturns(content) : content \in SeqsUpTo(ExtractTokens, MaxTokens)}

InitExtractor ==
    /\ now = 0
    /\ cache = EmptyCache
    /\ input \in [text : {"Skills: Go, Docker"}, llm : ExtractResponses]
    /\ op = "init"
    /\ outcome = None
    /\ result = None
    /\ trace = None
    /\ disk = EmptyDisk

\* One extraction; input.llm is what the completion call answers.
ExtractSkillsUsingAI ==
    /\ op' = "extract_skills_using_ai"
    /\ outcome' = input.llm
    /\ result' = extract_skills_using_ai(input.llm)
    /\ UNCHANGED <<now, cache, input, trace, disk>>

NextExtractor == ExtractSkillsUsingAI

SpecExtractor == InitExtractor /\ [][NextExtractor]_vars

\* The literals of a completion text, and whether it holds any prose.
LiteralsOf(content) == LET isLit(tok) == tok.t = "literal" IN FilterSeq(isLit, content)

HasProse(content) == \E i \in 1..Len(content) : content[i] = Prose

\* The text is, apart from code fences and surrounding whitespace, one literal
\* that Python evaluates.
IsOnePythonLiteral(content) ==
    /\ ~HasProse(content)
    /\ Len(LiteralsOf(content)) = 1
    /\ LiteralsOf(content)[1].syntax \in {"python", "both"}

\* C10: extract_skills_using_ai lets no exception reach its caller: when the call
\* raises, when the response does not parse after the code fences are stripped,
\* and when it parses to a value that is no list, it returns the empty list; for
\* a code-fenced array it returns that array.
C10_ExtractorNeverRaises ==
    op = "extract_skills_using_ai" =>
        /\ result # Raised
        /\ result.k = "list"
        /\ outcome = LLMRaises => result = JArr(<<>>)
        /\ (~outcome.raised /\ ~IsOnePythonLiteral(outcome.content))
              => result = JArr(<<>>)
        /\ (~outcome.raised /\ IsOnePythonLiteral(outcome.content))
              => result = IF LiteralsOf(outcome.content)[1].v.k = "list"
                          THEN LiteralsOf(outcome.content)[1].v
                          ELSE JArr(<<>>)
        /\ outcome = LLMReturns(<<FenceJson, Ws, Lit(JArr(<<"Go", "Docker">>), "both"),
                                   Ws, Fence>>)
              => result = JArr(<<"Go", "Docker">>)

C10_Witness ==
    /\ op = "extract_skills_using_ai"
    /\ outcome = LLMReturns(<<FenceJson, Ws, Lit(JArr(<<"Go", "Docker">>), "both"),
                              Ws, Fence>>)
    /\ result = JArr(<<"Go", "Docker">>)

\* A response that does not parse, met by the extractor.
C10_WitnessUnparseable ==
    /\ op = "extract_skills_using_ai"
    /\ outcome = LLMReturns(<<Prose, Ws, Lit(JArr(<<"Go", "Docker">>), "both")>>)
    /\ result = JArr(<<>>)

-----------------------------------------------------------------------------
(* The extractor's list handed to the verifier as resume_skills, the verifier's
   completion call raising. A list whose elements may be of any type holds
   tagged values: JStr, JNum, None or JArr. *)

\* isinstance(value, str), for every element of a list value
AllStrings(skills) == \A i \in 1..Len(skills.items) : skills.items[i].k = "str"

\* The elements of a list of str values, as the strings the analyzer works on
Strings(skills) == [i \in 1..Len(skills.items) |-> skills.items[i].s]

\* SkillAnalyzer.verify_skills_with_llm(skills, github_skills) on an empty cache,
\* the completion call raising. json.dumps writes numbers, None and nested
\* lists, so the cache key and the prompt are built for any list; the handler
\* of the call's exception calls basic_skill_verification, whose
\* [skill.lower() for skill in resume_skills] raises AttributeError on an
\* element that is no str, and no try encloses the handler.
VerifyExtracted(c, t, skills, github_skills) ==
    IF AllStrings(skills)
    THEN verify_skills_with_llm(c, t, Strings(skills), github_skills, LLMRaises)
    ELSE [val |-> Raised, cache |-> c, hit |-> FALSE, llm_requests |-> 1]

\* What the extraction's completion call answers: ["Go", "rust"], ["Go", 3],
\* ["Go", ["Docker"]], ["Go", None], ["Go", null], a JSON object, prose, or an
\* error.
PipelineResponses ==
    { LLMRaises,
      LLMReturns(<<FenceJson, Ws, Lit(JArr(<<JStr("Go"), JStr("rust")>>), "both"), Ws, Fence>>),
      LLMReturns(<<Lit(JArr(<<JStr("Go"), JNum(Frac(3, 1))>>), "both")>>),
      LLMReturns(<<Lit(JArr(<<JStr("Go"), JArr(<<JStr("Docker")>>)>>), "both")>>),
      LLMReturns(<<Lit(JArr(<<JStr("Go"), None>>), "python")>>),
      LLMReturns(<<Lit(JArr(<<JStr("Go"), None>>), "json")>>),
      LLMReturns(<<Lit(JObj([skills |-> JArr(<<JStr("Go")>>)]), "both")>>),
      LLMReturns(<<Prose>>) }

InitPipeline ==
    /\ now = 0
    /\ cache = EmptyCache
    /\ input \in [text : {"Skills: Go, Docker"}, llm : PipelineResponses,
                   github_skills : SkillLists]
    /\ op = "init"
    /\ outcome = None
    /\ result = None
    /\ trace = None
    /\ disk = EmptyDisk

\* ResumeParser.extract_skills_using_ai on the resume text
ExtractResumeSkills ==
    /\ op = "init"
    /\ op' = "extract_skills_using_ai"
    /\ outcome' = input.llm
    /\ result' = extract_skills_using_ai(input.llm)
    /\ UNCHANGED <<now, cache, input, trace, disk>>

\* SkillAnalyzer.verify_skills_with_llm on the list the extractor returned
VerifyExtractedSkills ==
    /\ op = "extract_skills_using_ai"
    /\ \E r \in {VerifyExtracted(cache, now, result, input.github_skills)} :
          /\ op' = "verify_skills_with_llm"
          /\ outcome' = LLMRaises
          /\ result' = r.val
          /\ cache' = r.cache
          /\ trace' = [resume_skills |-> result]
    /\ UNCHANGED <<now, input, disk>>

NextPipeline == ExtractResumeSkills \/ VerifyExtractedSkills

SpecPipeline == InitPipeline /\ [][NextPipeline]_vars

\* C23: every list extract_skills_using_ai returns holds only strings, so that
\* verify_skills_with_llm called with it as resume_skills, its completion call
\* raising, returns what basic_skill_verification returns and never raises.
C23_OnlyStringsReachVerifier ==
    /\ op = "extract_skills_using_ai" => AllStrings(result)
    /\ (op = "verify_skills_with_llm" /\ outcome = LLMRaises) =>
          /\ result # Raised
          /\ AllStrings(trace.resume_skills)
          /\ result = basic_skill_verification(Strings(trace.resume_skills),
                                               input.github_skills)

-----------------------------------------------------------------------------
(* github_service.py: GitHubService, the cache-wrapped host client.

   Every operation takes the machine state m = [cache, disk, requests, clones,
   raised] (the cache, the clone directories, the number of host API requests
   issued and the clones attempted so far in the call, and whether an exception
   is on its way up to the caller), the time t and the environment
   e = [username, listing, listing_ok, api_failed, api_raised, clone_failed,
   mkdtemp_failed] (what the host and the local disk answer during the call),
   and gives back its value and the machine state it leaves.  No method of
   GitHubService catches an exception of requests.get or of tempfile.mkdtemp:
   once m.raised is set, no statement after the raising one runs, and the value
   is Raised all the way up. *)

\* settings.GITHUB_CACHE_TIMEOUT, in ticks of the clock
GITHUB_CACHE_TIMEOUT == 2

\* getattr(settings, 'GITHUB_CLONE_CACHE_TIMEOUT', 60 * 30), in ticks of the clock
GITHUB_CLONE_CACHE_TIMEOUT == 1

\* str(arg) for a bool
StrOfBool(b) == IF b THEN "True" ELSE "False"

\* GitHubService._get_cache_key(method_name, *args), the args given as str(arg);
\* the keys of the model stay under the 250 characters beyond which the key is
\* hashed.
GitHubCacheKey(username, method_name, str_args) ==
    JoinWith("_", <<username, method_name>> \o str_args)

\* What the host holds for a repository: the languages, commits, README and
\* topics its API serves.
HostLanguages(repo_name) ==
    CASE repo_name = "api" -> Dict(<<"Go", "TS">>, [Go |-> 800, TS |-> 200])
      [] repo_name = "web" -> Dict(<<"TS", "CSS">>, [TS |-> 300, CSS |-> 100])
      [] repo_name \in {"tools", "ml"} -> Dict(<<"Python">>, [Python |-> 500])
      [] OTHER -> Dict(<<"TeX">>, [TeX |-> 300])

HostCommits(repo_name) == <<[sha |-> "c0ffee", message |-> "update " \o repo_name]>>

HostReadme(repo_name) == IF repo_name = "web" THEN "" ELSE "# " \o repo_name

HostTopics(repo_name) == IF repo_name = "api" THEN <<"backend">> ELSE <<>>

\* The entry of the repository listing; a repository nobody starred comes
\* without a star count here.
HostRepo(repo_name) ==
    CASE repo_name = "api" -> [name |-> "api", stargazers_count |-> 5]
      [] repo_name = "web" -> [name |-> "web", stargazers_count |-> 5]
      [] OTHER -> [name |-> repo_name]

\* What the static analysis finds in a clone of the repository: the result of
\* the file walks of identify_libraries, analyze_code_complexity and
\* identify_coding_patterns (averages in hundredths).
RepoLibraries(repo_name) ==
    CASE repo_name = "api" -> Dict(<<"django", "requests">>, [django |-> 4, requests |-> 2])
      [] repo_name = "web" -> Dict(<<"react", "requests">>, [react |-> 3, requests |-> 1])
      [] repo_name = "tools" ->
            Dict(<<"click", "rich", "toml", "yaml", "jinja2", "attrs">>,
                 [click |-> 1, rich |-> 1, toml |-> 1, yaml |-> 1, jinja2 |-> 1, attrs |-> 1])
      [] repo_name = "ml" ->
            Dict(<<"numpy", "scipy", "pandas", "torch", "sklearn", "tqdm">>,
                 [numpy |-> 1, scipy |-> 1, pandas |-> 1, torch |-> 1, sklearn |-> 1,
                  tqdm |-> 1])
      [] OTHER -> EmptyDict

RepoComplexity(repo_name) ==
    CASE repo_name = "api" ->
            [summary |-> [avg_complexity |-> 250, avg_nloc |-> 1200, total_functions |-> 4]]
      [] repo_name = "web" ->
            [summary |-> [avg_complexity |-> 175, avg_nloc |-> 850, total_functions |-> 2]]
      [] OTHER ->
            [summary |-> [avg_complexity |-> 0, avg_nloc |-> 0, total_functions |-> 0]]

RepoPatterns(repo_name) ==
    CASE repo_name = "api" ->
            [has_tests |-> TRUE, has_ci |-> TRUE, has_docs |-> FALSE, has_linter |-> FALSE,
             uses_oop |-> TRUE, uses_functional |-> FALSE, frameworks |-> <<"django">>]
      [] repo_name = "web" ->
            [has_tests |-> FALSE, has_ci |-> FALSE, has_docs |-> TRUE, has_linter |-> TRUE,
             uses_oop |-> FALSE, uses_functional |-> TRUE, frameworks |-> <<"react">>]
      [] OTHER ->
            [has_tests |-> FALSE, has_ci |-> FALSE, has_docs |-> TRUE, has_linter |-> FALSE,
             uses_oop |-> FALSE, uses_functional |-> FALSE, frameworks |-> <<>>]

\* One host API request issued
Requested(m) == [m EXCEPT !.requests = @ + 1]

\* An exception leaves the method: nothing is returned
Raise(m) == [val |-> Raised, m |-> [m EXCEPT !.raised = TRUE]]

\* What requests.get does for a request about the repository: it returns a
\* response of status 200 or of a non-success status, or it raises (a
\* connection error, a read timeout)
HostStatus(e, repo_name) ==
    IF repo_name \in e.api_raised THEN "ConnectionError"
    ELSE IF repo_name \in e.api_failed THEN "503" ELSE "200"

\* cache.set(cache_key, value, timeout) and return value
StoreAndReturn(m, t, cache_key, value, timeout) ==
    IF m.raised THEN [val |-> Raised, m |-> m]
    ELSE [val |-> value,
          m |-> [m EXCEPT !.cache = CacheSet(m.cache, cache_key, value, timeout, t)]]

\* The shape shared by the cache-wrapped fetches: the cached value on a hit;
\* otherwise one host request, whose data is cached and returned on status 200
\* and whose soft-fail default is returned, uncached, on any other status; an
\* exception of requests.get is not caught.
CachedFetch(m, t, cache_key, status, data, default) ==
    LET cached_data == CacheGet(m.cache, cache_key, t)
    IN  IF m.raised THEN [val |-> Raised, m |-> m]
        ELSE IF cached_data # None THEN [val |-> cached_data, m |-> m]
        ELSE IF status = "ConnectionError" THEN Raise(Requested(m))
        ELSE IF status = "200"
        THEN StoreAndReturn(Requested(m), t, cache_key, data, GITHUB_CACHE_TIMEOUT)
        ELSE [val |-> default, m |-> Requested(m)]

\* The same without the cache.set: get_repo_readme on an empty README
CachedFetchNoStore(m, t, cache_key, status, data, default) ==
    LET cached_data == CacheGet(m.cache, cache_key, t)
    IN  IF m.raised THEN [val |-> Raised, m |-> m]
        ELSE IF cached_data # None THEN [val |-> cached_data, m |-> m]
        ELSE IF status = "ConnectionError" THEN Raise(Requested(m))
        ELSE IF status = "200" THEN [val |-> data, m |-> Requested(m)]
        ELSE [val |-> default, m |-> Requested(m)]

GetUserReposUncached(m, t, e) ==
    IF e.listing_ok THEN [val |-> JArr(e.listing), m |-> Requested(m)]
    ELSE [val |-> JArr(<<>>), m |-> Requested(m)]

\* GitHubService.get_user_repos
get_user_repos(m, t, e) ==
    CachedFetch(m, t, GitHubCacheKey(e.username, "user_repos", <<>>),
                IF e.listing_ok THEN "200" ELSE "503", JArr(e.listing), JArr(<<>>))

\* GitHubService.get_repo_languages
get_repo_languages(m, t, e, repo_name) ==
    CachedFetch(m, t, GitHubCacheKey(e.username, "repo_languages", <<repo_name>>),
                HostStatus(e, repo_name), HostLanguages(repo_name), EmptyDict)

\* GitHubService.get_repo_commits, max_commits = 10
get_repo_commits(m, t, e, repo_name) ==
    CachedFetch(m, t, GitHubCacheKey(e.username, "repo_commits", <<repo_name, "10">>),
                HostStatus(e, repo_name), JArr(HostCommits(repo_name)), JArr(<<>>))

\* GitHubService.get_repo_readme: an empty README is returned without being cached
get_repo_readme(m, t, e, repo_name) ==
    IF HostReadme(repo_name) # ""
    THEN CachedFetch(m, t, GitHubCacheKey(e.username, "repo_readme", <<repo_name>>),
                     HostStatus(e, repo_name), JStr(HostReadme(repo_name)), JStr(""))
    ELSE CachedFetchNoStore(m, t, GitHubCacheKey(e.username, "repo_readme", <<repo_name>>),
                            HostStatus(e, repo_name), JStr(""), JStr(""))

\* GitHubService.get_repo_topics
get_repo_topics(m, t, e, repo_name) ==
    CachedFetch(m, t, GitHubCacheKey(e.username, "repo_topics", <<repo_name>>),
                HostStatus(e, repo_name), JArr(HostTopics(repo_name)), JArr(<<>>))

\* The dict collect_repo_data returns after its four fetches
CollectedData(repo_name, languages, commits, readme, topics) ==
    IF topics.m.raised THEN topics
    ELSE [val |-> [name |-> repo_name,
                   languages |-> languages.val,
                   commits |-> commits.val,
                   readme |-> readme.val,
                   topics |-> topics.val],
          m |-> topics.m]

\* GitHubService.collect_repo_data
collect_repo_data(m, t, e, repo_name) ==
    LET languages == get_repo_languages(m, t, e, repo_name)
        commits == get_repo_commits(languages.m, t, e, repo_name)
        readme == get_repo_readme(commits.m, t, e, repo_name)
        topics == get_repo_topics(readme.m, t, e, repo_name)
    IN  CollectedData(repo_name, languages, commits, readme, topics)

\* tempfile.mkdtemp(prefix="gh_<repo_name>_"): a directory name in use nowhere,
\* neither on disk nor in a cache key or a cached clone path.
TempDirName(repo_name, n) == "/tmp/gh_" \o repo_name \o "_" \o ToString(n)

InUse(m, e, path) ==
    \/ path \in DOMAIN m.disk
    \/ \E kind \in {"repo_libraries", "repo_complexity", "repo_patterns"} :
          GitHubCacheKey(e.username, kind, <<path>>) \in DOMAIN m.cache
    \/ \E key \in DOMAIN m.cache : m.cache[key].value = JStr(path)

Mkdtemp(m, e, repo_name) ==
    TempDirName(repo_name,
                CHOOSE n \in 0..(Cardinality(DOMAIN m.disk) + Cardinality(DOMAIN m.cache)) :
                    /\ ~InUse(m, e, TempDirName(repo_name, n))
                    /\ \A k \in 0..(n - 1) : InUse(m, e, TempDirName(repo_name, k)))

\* temp_dir = tempfile.mkdtemp(...), outside the try: its OSError (no space, no
\* permission) is not caught.  Repo.clone_from(clone_url, temp_dir), inside the
\* try: the clone is in temp_dir and its path is cached, or the clone fails and
\* None is returned (the directory of a failed clone is left behind, empty and
\* unreferenced).
CloneInto(m, t, e, repo_name, cache_key, temp_dir) ==
    IF repo_name \in e.mkdtemp_failed THEN Raise(m)
    ELSE IF repo_name \notin e.clone_failed
    THEN StoreAndReturn(
            [m EXCEPT
                !.clones = Append(@, [repo_name |-> repo_name, cloned |-> TRUE]),
                !.disk = [path \in DOMAIN m.disk \cup {temp_dir} |->
                            IF path = temp_dir THEN repo_name ELSE m.disk[path]]],
            t, cache_key, JStr(temp_dir), GITHUB_CLONE_CACHE_TIMEOUT)
    ELSE [val |-> None,
          m |-> [m EXCEPT !.clones = Append(@, [repo_name |-> repo_name, cloned |-> FALSE])]]

CloneRepoTrustingCache(m, t, e, repo_name) ==
    LET cache_key == GitHubCacheKey(e.username, "repo_clone_path", <<repo_name>>)
        cached_path == CacheGet(m.cache, cache_key, t)
    IN  IF m.raised THEN [val |-> Raised, m |-> m]
        ELSE IF cached_path # None
        THEN [val |-> cached_path, m |-> m]
        ELSE CloneInto(m, t, e, repo_name, cache_key, Mkdtemp(m, e, repo_name))

\* GitHubService.clone_repo: the cached path if its directory still exists,
\* otherwise a clone into a fresh directory.
clone_repo(m, t, e, repo_name) ==
    LET cache_key == GitHubCacheKey(e.username, "repo_clone_path", <<repo_name>>)
        cached_path == CacheGet(m.cache, cache_key, t)
    IN  IF m.raised THEN [val |-> Raised, m |-> m]
        ELSE IF cached_path # None /\ cached_path.s \in DOMAIN m.disk
        THEN [val |-> cached_path, m |-> m]
        ELSE CloneInto(m, t, e, repo_name, cache_key, Mkdtemp(m, e, repo_name))

\* The shape shared by identify_libraries, analyze_code_complexity and
\* identify_coding_patterns: the cached result, or the result of the file walk,
\* cached.
CachedAnalysis(m, t, cache_key, found) ==
    LET cached_data == CacheGet(m.cache, cache_key, t)
    IN  IF m.raised THEN [val |-> Raised, m |-> m]
        ELSE IF cached_data # None THEN [val |-> cached_data, m |-> m]
        ELSE StoreAndReturn(m, t, cache_key, found, GITHUB_CACHE_TIMEOUT)

\* GitHubService.identify_libraries
identify_libraries(m, t, e, repo_path) ==
    CachedAnalysis(m, t, GitHubCacheKey(e.username, "repo_libraries", <<repo_path>>),
                   RepoLibraries(m.disk[repo_path]))

\* GitHubService.analyze_code_complexity
analyze_code_complexity(m, t, e, repo_path) ==
    CachedAnalysis(m, t, GitHubCacheKey(e.username, "repo_complexity", <<repo_path>>),
                   RepoComplexity(m.disk[repo_path]))

\* GitHubService.identify_coding_patterns
identify_coding_patterns(m, t, e, repo_path) ==
    CachedAnalysis(m, t, GitHubCacheKey(e.username, "repo_patterns", <<repo_path>>),
                   RepoPatterns(m.disk[repo_path]))

\* analysis_data with analysis_data['skills'] set
WithSkills(analysis_data) ==
    [basic_info |-> analysis_data.basic_info,
     libraries |-> analysis_data.libraries,
     complexity |-> analysis_data.complexity,
     patterns |-> analysis_data.patterns,
     skills |-> generate_skill_metrics(analysis_data)]

\* What analyze_repo returns after the clone: the entry with the error marker,
\* uncached, if the clone failed, and the analysis, cached, otherwise.
AnalysisEntry(t, cache_key, repo_path, basic_info, libraries, complexity, patterns) ==
    IF basic_info.m.raised THEN basic_info
    ELSE IF repo_path.val = None
    THEN [val |-> [error |-> "Failed to clone repository", basic_info |-> basic_info.val],
          m |-> basic_info.m]
    ELSE StoreAndReturn(patterns.m, t, cache_key,
                        WithSkills([basic_info |-> basic_info.val,
                                    libraries |-> libraries.val,
                                    complexity |-> complexity.val,
                                    patterns |-> patterns.val]),
                        GITHUB_CACHE_TIMEOUT)

\* GitHubService.analyze_repo
analyze_repo(m, t, e, repo_name) ==
    LET cache_key == GitHubCacheKey(e.username, "repo_analysis", <<repo_name>>)
        cached_data == CacheGet(m.cache, cache_key, t)
        repo_path == clone_repo(m, t, e, repo_name)
        basic_info == collect_repo_data(repo_path.m, t, e, repo_name)
        libraries == identify_libraries(basic_info.m, t, e, repo_path.val.s)
        complexity == analyze_code_complexity(libraries.m, t, e, repo_path.val.s)
        patterns == identify_coding_patterns(complexity.m, t, e, repo_path.val.s)
    IN  IF m.raised THEN [val |-> Raised, m |-> m]
        ELSE IF cached_data # None THEN [val |-> cached_data, m |-> m]
        ELSE AnalysisEntry(t, cache_key, repo_path, basic_info, libraries, complexity, patterns)

\* r.get('stargazers_count', 0)
Stars(repo) == IF "stargazers_count" \in DOMAIN repo THEN repo.stargazers_count ELSE 0

\* sorted(repos, key=stars, reverse=True): descending, equal stars in listing order
RECURSIVE InsertByStars(_, _)
InsertByStars(repo, repos) ==
    IF repos = <<>> THEN <<repo>>
    ELSE IF Stars(repo) > Stars(Head(repos)) THEN <<repo>> \o repos
    ELSE <<Head(repos)>> \o InsertByStars(repo, Tail(repos))

RECURSIVE SortByStars(_)
SortByStars(repos) ==
    IF repos = <<>> THEN <<>>
    ELSE InsertByStars(repos[Len(repos)], SortByStars(SubSeq(repos, 1, Len(repos) - 1)))

\* repos[:max_repos], max_repos >= 0
FirstRepos(repos, max_repos) ==
    SubSeq(repos, 1, IF Len(repos) < max_repos THEN Len(repos) ELSE max_repos)

\* repo.get(field) of the listing entry
ListingField(repo, field) ==
    IF field \in DOMAIN repo THEN [k |-> "int", v |-> repo[field]] ELSE None

\* repo_data.update({...}) with the metadata of the listing entry
WithListingFields(repo_data, repo) ==
    IF repo_data.m.raised THEN repo_data ELSE
    [val |-> [name |-> repo_data.val.name,
              languages |-> repo_data.val.languages,
              commits |-> repo_data.val.commits,
              readme |-> repo_data.val.readme,
              topics |-> repo_data.val.topics,
              description |-> ListingField(repo, "description"),
              stars |-> ListingField(repo, "stargazers_count"),
              forks |-> ListingField(repo, "forks_count"),
              created_at |-> ListingField(repo, "created_at"),
              updated_at |-> ListingField(repo, "updated_at")],
     m |-> repo_data.m]

\* The entry get_all_github_data appends for one repository
RepoEntry(m, t, e, repo, analyze) ==
    IF analyze THEN analyze_repo(m, t, e, repo.name)
    ELSE WithListingFields(collect_repo_data(m, t, e, repo.name), repo)

\* all_data['repos'].append(repo_data)
AppendEntry(before, entry) ==
    IF entry.m.raised THEN entry
    ELSE [val |-> Append(before.val, entry.val), m |-> entry.m]

\* The loop of get_all_github_data over the selected repositories
RECURSIVE RepoEntries(_, _, _, _, _)
RepoEntries(m, t, e, repos, analyze) ==
    IF repos = <<>> THEN [val |-> <<>>, m |-> m]
    ELSE LET before == RepoEntries(m, t, e, SubSeq(repos, 1, Len(repos) - 1), analyze)
         IN  AppendEntry(before, RepoEntry(before.m, t, e, repos[Len(repos)], analyze))

\* all_data, cached and returned
AllData(t, cache_key, username, entries) ==
    IF entries.m.raised THEN entries ELSE
    StoreAndReturn(entries.m, t, cache_key, [username |-> username, repos |-> entries.val],
                   GITHUB_CACHE_TIMEOUT)

SelectedReposUnsorted(repos, max_repos) == FirstRepos(repos.val.items, max_repos)

\* The repositories get_all_github_data processes: the first max_repos by stars
SelectedRepos(repos, max_repos) == FirstRepos(SortByStars(repos.val.items), max_repos)

\* The loop of get_all_github_data from the listing on
ListedEntries(t, e, repos, max_repos, analyze) ==
    IF repos.m.raised THEN repos ELSE
    RepoEntries(repos.m, t, e, SelectedRepos(repos, max_repos), analyze)

\* GitHubService.get_all_github_data
get_all_github_data(m, t, e, max_repos, analyze) ==
    LET cache_key == GitHubCacheKey(e.username, "all_github_data",
                                    <<ToString(max_repos), StrOfBool(analyze)>>)
        cached_data == CacheGet(m.cache, cache_key, t)
    IN  IF cached_data # None THEN [val |-> cached_data, m |-> m]
        ELSE AllData(t, cache_key, e.username,
                     ListedEntries(t, e, get_user_repos(m, t, e), max_repos, analyze))

\* The summary of github_data, cached and returned; an exception of the
\* aggregation leaves the caller with Raised and the summary uncached.
SummaryOf(t, cache_key, username, github_data) ==
    LET skills_summary == SkillsSummary(username, github_data.val.repos)
    IN  IF github_data.m.raised THEN github_data
        ELSE IF skills_summary = Raised THEN Raise(github_data.m)
        ELSE StoreAndReturn(github_data.m, t, cache_key, skills_summary, GITHUB_CACHE_TIMEOUT)

\* GitHubService.generate_skills_summary
generate_skills_summary(m, t, e, max_repos) ==
    LET cache_key == GitHubCacheKey(e.username, "skills_summary", <<ToString(max_repos)>>)
        cached_data == CacheGet(m.cache, cache_key, t)
    IN  IF cached_data # None THEN [val |-> cached_data, m |-> m]
        ELSE SummaryOf(t, cache_key, e.username,
                       get_all_github_data(m, t, e, max_repos, TRUE))

-----------------------------------------------------------------------------
(* The GitHub service under calls, host failures and the clock *)

RepoNames == {"api", "web", "docs"}

\* The listings of the host: at most MaxRepos distinct repositories
Listings ==
    {listing \in SeqsUpTo(RepoNames, MaxRepos) :
        \A i, j \in 1..Len(listing) : i # j => listing[i] # listing[j]}

\* What the host does during one call: the listing request succeeds or not, the
\* requests about the repositories in api_failed get a non-success status, the
\* clones of the repositories in clone_failed fail.
Environment(listing_ok, failed) ==
    [username |-> input.username,
     listing |-> [i \in 1..Len(input.listing) |-> HostRepo(input.listing[i])],
     listing_ok |-> listing_ok,
     api_failed |-> failed,
     api_raised |-> {},
     clone_failed |-> failed,
     mkdtemp_failed |-> {}]

\* The host answers the listing request or not
ListingEnvironments == {Environment(listing_ok, {}) : listing_ok \in BOOLEAN}

\* The host is up, or fails the listing request, or fails the requests about
\* and the clone of the repository it lists last
Environments ==
    ListingEnvironments \cup
    {Environment(TRUE, {input.listing[Len(input.listing)]}) : x \in {1} \cap DOMAIN input.listing}

Machine == [cache |-> cache, disk |-> disk, requests |-> 0, clones |-> <<>>, raised |-> FALSE]

\* Whether the key holds an entry before the call, and whether it is still valid
EntryState(key) ==
    IF key \notin DOMAIN cache THEN "absent"
    ELSE IF now < cache[key].expiry THEN "fresh" ELSE "expired"

InitGitHub ==
    /\ now = 0
    /\ cache = EmptyCache
    /\ disk = EmptyDisk
    /\ input \in [username : {"alice"}, listing : Listings,
                   max_repos : {MaxRepos - 1, MaxRepos}]
    /\ op = "init"
    /\ outcome = None
    /\ result = None
    /\ trace = [entry |-> "absent", requests |-> 0, clones |-> <<>>, calls |-> 0]

\* One more call may be made to the service
MayCall == trace.calls < MaxCalls

\* The call with the arguments args returned r = [val, m] under the environment e
Returned(name, args, key, e, r) ==
    /\ op' = name
    /\ outcome' = [env |-> e, args |-> args]
    /\ result' = IF r.m.raised THEN Raised ELSE r.val
    /\ cache' = r.m.cache
    /\ disk' = r.m.disk
    /\ trace' = [entry |-> EntryState(key), requests |-> r.m.requests,
                 clones |-> r.m.clones, calls |-> trace.calls + 1]
    /\ UNCHANGED <<now, input>>

GetUserRepos ==
    /\ MayCall
    /\ \E e \in ListingEnvironments :
        \E r \in {get_user_repos(Machine, now, e)} :
            Returned("get_user_repos", <<>>,
                     GitHubCacheKey(e.username, "user_repos", <<>>), e, r)

GetAllGithubData ==
    /\ MayCall
    /\ \E e \in Environments, analyze \in BOOLEAN :
        \E r \in {get_all_github_data(Machine, now, e, input.max_repos, analyze)} :
            Returned("get_all_github_data",
                     [max_repos |-> input.max_repos, analyze |-> analyze],
                     GitHubCacheKey(e.username, "all_github_data",
                                    <<ToString(input.max_repos), StrOfBool(analyze)>>),
                     e, r)

GenerateSkillsSummary ==
    /\ MayCall
    /\ \E e \in Environments :
        \E r \in {generate_skills_summary(Machine, now, e, input.max_repos)} :
            Returned("generate_skills_summary",
                     [max_repos |-> input.max_repos],
                     GitHubCacheKey(e.username, "skills_summary",
                                    <<ToString(input.max_repos)>>),
                     e, r)

NextGitHub ==
    GetUserRepos \/ GetAllGithubData \/ GenerateSkillsSummary \/ Tick

SpecGitHub == InitGitHub /\ [][NextGitHub]_vars

-----------------------------------------------------------------------------
(* Properties of the GitHub service *)

UserReposKey == GitHubCacheKey(input.username, "user_repos", <<>>)

AllDataKey == GitHubCacheKey(input.username, "all_github_data",
                             <<ToString(input.max_repos), "True">>)

\* The call the state is left by found no valid cache entry of its own
Computed(name) == op = name /\ trace.entry # "fresh"

\* The entries of get_all_github_data(analyze=True) the summary was built from
SummaryEntries == cache[AllDataKey].value.repos

\* C7: a value set in the cache is what a read gets until its expiry and is
\* absent from then on; so get_user_repos, called while the entry of the
\* listing is valid, returns the stored value and issues no host request, and
\* called when the entry is absent or expired issues one host request, whose
\* successful answer is stored for GITHUB_CACHE_TIMEOUT.
C7_CachedFetch ==
    [][GetUserRepos =>
        LET valid == UserReposKey \in DOMAIN cache /\ now < cache[UserReposKey].expiry
        IN  /\ valid =>
                /\ result' = cache[UserReposKey].value
                /\ trace'.requests = 0
                /\ cache' = cache
            /\ ~valid =>
                /\ trace'.requests = 1
                /\ outcome'.env.listing_ok =>
                    /\ result' = JArr(outcome'.env.listing)
                    /\ \A t \in now..(now + GITHUB_CACHE_TIMEOUT - 1) :
                          CacheGet(cache', UserReposKey, t) = result'
                    /\ CacheGet(cache', UserReposKey, now + GITHUB_CACHE_TIMEOUT) = None
       ]_vars

\* A second call before the expiry is answered from the cache
C7_Witness ==
    /\ op = "get_user_repos"
    /\ trace.entry = "fresh"
    /\ trace.requests = 0
    /\ trace.calls = 2
    /\ result.items # <<>>

\* A call after the expiry asks the host again
C7_WitnessExpired ==
    /\ op = "get_user_repos"
    /\ trace.entry = "expired"
    /\ trace.requests = 1

\* The clone of the repository was attempted in the call and failed
CloneFailed(repo_name) ==
    \E i \in 1..Len(trace.clones) :
        trace.clones[i] = [repo_name |-> repo_name, cloned |-> FALSE]

\* C6: the entry of a repository whose clone failed carries the error marker,
\* and the summary is the one of the repositories actually analyzed: the
\* language sums, library counts, complexity averages and practice percentages
\* are those of the data without the failed entries, the percentages being
\* taken over the number of repositories analyzed.
C6_FailedCloneExcluded ==
    /\ Computed("get_all_github_data") /\ outcome.args.analyze =>
            \A i \in 1..Len(result.repos) :
                CloneFailed(result.repos[i].basic_info.name) =>
                    "error" \in DOMAIN result.repos[i]
    /\ Computed("generate_skills_summary") /\ result # Raised =>
            LET analyzed == SkillsSummary(input.username, Analyzed(SummaryEntries))
            IN  /\ result.languages = analyzed.languages
                /\ result.top_libraries = analyzed.top_libraries
                /\ result.code_metrics = analyzed.code_metrics
                /\ Analyzed(SummaryEntries) # <<>> => result.practices = analyzed.practices

\* No entry of the summary's data has a function analyzed
NoFunctionAnalyzed ==
    \A i \in 1..Len(SummaryEntries) :
        "complexity" \in DOMAIN SummaryEntries[i] =>
            SummaryEntries[i].complexity.summary.total_functions = 0

CodeMetricsZero ==
    result.code_metrics = [complexity |-> 0, function_size |-> 0, total_functions |-> 0]

\* C8 as stated: the summary is returned, not an error, and with no repository
\* or no function analyzed every numeric metric is 0 or absent, the practice
\* and the language percentages included.
C8_AsStated ==
    Computed("generate_skills_summary") =>
        /\ result # Raised
        /\ NoFunctionAnalyzed =>
            /\ CodeMetricsZero
            /\ \A practice \in DOMAIN result.practices : result.practices[practice] = 0
            /\ \A lang \in DOMAIN result.languages.at :
                  result.languages.at[lang].percentage = 0

\* C8: the summary is returned, not an error; with no repository it has no
\* language, no library, no practice percentage and code metrics of 0; with
\* repositories none of which has a function analyzed its average complexity,
\* average function size and total of functions are 0.
C8_NoZeroDivision ==
    Computed("generate_skills_summary") =>
        /\ result # Raised
        /\ SummaryEntries = <<>> =>
            /\ CodeMetricsZero
            /\ DOMAIN result.practices = {}
            /\ result.languages = EmptyDict
            /\ result.top_libraries = EmptyDict
            /\ result.repo_count = 0
        /\ NoFunctionAnalyzed => CodeMetricsZero

\* A repository without functions is summarised: no average is taken, its
\* documentation practice and its language count in full.
C8_Witness ==
    /\ Computed("generate_skills_summary")
    /\ Len(SummaryEntries) = 1
    /\ "error" \notin DOMAIN SummaryEntries[1]
    /\ NoFunctionAnalyzed
    /\ CodeMetricsZero
    /\ result.practices["documentation"] = 10000
    /\ result.languages.at["TeX"].percentage = 10000

\* The name of the repository an entry of all_data['repos'] is about
EntryName(entry) ==
    IF "basic_info" \in DOMAIN entry THEN entry.basic_info.name ELSE entry.name

\* The number of repositories get_all_github_data selects of the listing
SelectedCount ==
    IF Len(input.listing) < input.max_repos THEN Len(input.listing) ELSE input.max_repos

\* Where the host lists the repository, and the stars it reports for it (none
\* reported counts as 0)
ListedAt(repo_name) == CHOOSE i \in DOMAIN input.listing : input.listing[i] = repo_name

StarsOf(repo_name) ==
    LET listed == HostRepo(repo_name)
    IN  IF "stargazers_count" \in DOMAIN listed THEN listed.stargazers_count ELSE 0

\* a comes before b in the listing sorted by descending stars, equal stars in
\* listing order
Ahead(a, b) ==
    \/ StarsOf(a) > StarsOf(b)
    \/ StarsOf(a) = StarsOf(b) /\ ListedAt(a) < ListedAt(b)

\* The repositories with fewer than max_repos repositories ahead of them
TopByStars ==
    {repo_name \in SetOf(input.listing) :
        Cardinality({other \in SetOf(input.listing) : Ahead(other, repo_name)})
            < input.max_repos}

\* The cache keys of the data fetched and analyzed about a repository
RepoKeys(repo_name) ==
    {GitHubCacheKey(input.username, kind, <<repo_name>>) :
        kind \in {"repo_languages", "repo_readme", "repo_topics", "repo_analysis",
                  "repo_clone_path"}}
    \cup {GitHubCacheKey(input.username, "repo_commits", <<repo_name, "10">>)}

\* C14: get_all_github_data processes the first min(max_repos, N) repositories
\* of the listing sorted by descending stars (no star count as 0, equal counts
\* in listing order): its result has one entry for each of them, in that
\* order, and about no repository outside them a request is issued, a clone
\* made or anything cached.
C14_TopByStars ==
    (Computed("get_all_github_data") /\ result # Raised) =>
        LET names == [i \in 1..Len(result.repos) |-> EntryName(result.repos[i])]
        IN  /\ Len(names) <= input.max_repos
            /\ Len(names) \in {0, SelectedCount}
            /\ outcome.env.listing_ok => Len(names) = SelectedCount
            /\ SetOf(names) \subseteq TopByStars
            /\ \A i, j \in 1..Len(names) : i < j => Ahead(names[i], names[j])
            /\ trace.requests <= 1 + 4 * Len(names)
            /\ \A i \in 1..Len(trace.clones) : trace.clones[i].repo_name \in SetOf(names)
            /\ \A repo_name \in SetOf(input.listing) \ TopByStars :
                  /\ RepoKeys(repo_name) \cap DOMAIN cache = {}
                  /\ \A path \in DOMAIN disk : disk[path] # repo_name

\* Of a repository without stars listed before one with five, only the starred
\* one is fetched
C14_Witness ==
    /\ Computed("get_all_github_data")
    /\ input.listing = <<"docs", "api">>
    /\ input.max_repos = 1
    /\ Len(result.repos) = 1
    /\ EntryName(result.repos[1]) = "api"
    /\ trace.requests = 5
    /\ RepoKeys("docs") \cap DOMAIN cache = {}

\* Of two repositories with the same stars, the one listed first is fetched
C14_WitnessTie ==
    /\ Computed("get_all_github_data")
    /\ input.listing = <<"web", "api">>
    /\ input.max_repos = 1
    /\ Len(result.repos) = 1
    /\ EntryName(result.repos[1]) = "web"

\* The host answered every request of the call and every clone succeeded
HostUp ==
    /\ outcome.env.listing_ok
    /\ outcome.env.api_failed = {}
    /\ outcome.env.clone_failed = {}

\* The service before its first call: nothing cached, nothing cloned
FreshMachine ==
    [cache |-> EmptyCache, disk |-> EmptyDisk, requests |-> 0, clones |-> <<>>,
     raised |-> FALSE]

\* C19: no result derived from a soft-failed host call is served from the
\* cache once the host has recovered: a call made while the host answers every
\* request and clone returns the data of the recovered host, that is what the
\* same call returns when nothing is cached, whatever failed in earlier calls.
C19_DegradedNotCached ==
    /\ (op = "get_user_repos" /\ HostUp) => result = JArr(outcome.env.listing)
    /\ (op = "get_all_github_data" /\ HostUp) =>
          result = get_all_github_data(FreshMachine, now, outcome.env, input.max_repos,
                                       outcome.args.analyze).val
    /\ (op = "generate_skills_summary" /\ HostUp) =>
          result = generate_skills_summary(FreshMachine, now, outcome.env,
                                           input.max_repos).val

-----------------------------------------------------------------------------
(* get_all_github_data while one repository of the listing meets a transient
   failure: a non-success status or an exception of the host API requests
   about it, a failing clone, or no directory to clone it into *)

FailureKinds == {"none", "status", "exception", "clone", "mkdtemp"}

\* The host lists the repositories, and the repository meets the failure
FailureEnvironment(kind, repo_name) ==
    [username |-> input.username,
     listing |-> [i \in 1..Len(input.listing) |-> HostRepo(input.listing[i])],
     listing_ok |-> TRUE,
     api_failed |-> IF kind = "status" THEN {repo_name} ELSE {},
     api_raised |-> IF kind = "exception" THEN {repo_name} ELSE {},
     clone_failed |-> IF kind = "clone" THEN {repo_name} ELSE {},
     mkdtemp_failed |-> IF kind = "mkdtemp" THEN {repo_name} ELSE {}]

FailureEnvironments ==
    {FailureEnvironment(kind, repo_name) :
        kind \in FailureKinds, repo_name \in SetOf(input.listing)}

GetAllGithubDataFailing ==
    /\ MayCall
    /\ \E e \in FailureEnvironments, analyze \in BOOLEAN :
        \E r \in {get_all_github_data(Machine, now, e, input.max_repos, analyze)} :
            Returned("get_all_github_data",
                     [max_repos |-> input.max_repos, analyze |-> analyze],
                     GitHubCacheKey(e.username, "all_github_data",
                                    <<ToString(input.max_repos), StrOfBool(analyze)>>),
                     e, r)

NextBatch == GetAllGithubDataFailing \/ Tick

SpecBatch == InitGitHub /\ [][NextBatch]_vars

\* C13: get_all_github_data, computing its result while one repository meets a
\* transient failure (non-success status, transport exception, failed clone,
\* no clone directory), raises nothing and returns one entry for every
\* selected repository, the entry of a failed clone carrying the error marker.
C13_BatchNotAborted ==
    Computed("get_all_github_data") =>
        /\ result # Raised
        /\ Len(result.repos) = SelectedCount
        /\ Cardinality({EntryName(result.repos[i]) : i \in 1..Len(result.repos)})
              = SelectedCount
        /\ \A i \in 1..Len(result.repos) :
              CloneFailed(EntryName(result.repos[i])) => "error" \in DOMAIN result.repos[i]

-----------------------------------------------------------------------------
(* clone_repo called again and again on the repositories of the listing, while
   the clock runs, cached paths expire and clone directories are reclaimed from
   the temporary directory behind the service's back *)

CloneRepo ==
    /\ MayCall
    /\ \E repo_name \in SetOf(input.listing), clone_ok \in BOOLEAN :
        \E e \in {Environment(TRUE, IF clone_ok THEN {} ELSE {repo_name})} :
            \E r \in {clone_repo(Machine, now, e, repo_name)} :
                Returned("clone_repo", [repo_name |-> repo_name],
                         GitHubCacheKey(e.username, "repo_clone_path", <<repo_name>>),
                         e, r)

\* A clone directory is removed (a cleaner of the temporary directory, a
\* reboot): nothing in the service is told.
ReclaimCloneDir ==
    \E gone \in DOMAIN disk :
        /\ disk' = [path \in DOMAIN disk \ {gone} |-> disk[path]]
        /\ UNCHANGED <<now, cache, input, op, outcome, result, trace>>

NextClone == CloneRepo \/ ReclaimCloneDir \/ Tick

SpecClone == InitGitHub /\ [][NextClone]_vars

\* The cache key of the clone path of the repository the call was about
ClonePathKey(args) == GitHubCacheKey(input.username, "repo_clone_path", <<args.repo_name>>)

\* C20: whenever clone_repo returns a path, its directory is on disk at the
\* return; a cached path whose directory is gone is not returned: a fresh
\* clone is made and the cache entry of the repository holds the new path.
C20_ClonePathExists ==
    [][CloneRepo =>
        LET cached_path == CacheGet(cache, ClonePathKey(outcome'.args), now)
        IN  result' # None =>
                /\ result'.s \in DOMAIN disk'
                /\ disk'[result'.s] = outcome'.args.repo_name
                /\ (cached_path # None /\ cached_path.s \in DOMAIN disk) =>
                      /\ result' = cached_path
                      /\ disk' = disk
                /\ (cached_path # None /\ cached_path.s \notin DOMAIN disk) =>
                      /\ result' # cached_path
                      /\ result'.s \notin DOMAIN disk
                      /\ CacheGet(cache', ClonePathKey(outcome'.args), now) = result'
       ]_vars

\* The cached path is still valid but its directory was reclaimed: the second
\* call cloned into a new directory and cached that one
C20_Witness ==
    /\ op = "clone_repo"
    /\ trace.calls = 2
    /\ trace.entry = "fresh"
    /\ Len(trace.clones) = 1
    /\ result # None
    /\ result.s = TempDirName(outcome.args.repo_name, 1)
    /\ DOMAIN disk = {result.s}
    /\ cache[ClonePathKey(outcome.args)].value = result

-----------------------------------------------------------------------------
(* The language percentages, per repository and across repositories, over
   language -> bytes mappings of up to MaxLanguages languages *)

ByteCounts == {0, 1, 200, 800}

LanguageName(i) == IF i = 1 THEN "Go" ELSE IF i = 2 THEN "TS" ELSE "L" \o ToString(i)

\* n languages: the first k of `first` bytes, the others of `rest` bytes
LanguageMapping(n, k, first, rest) ==
    LET order == [i \in 1..n |-> LanguageName(i)]
    IN  Dict(order,
             [lang \in SetOf(order) |->
                 IF \E i \in 1..k : order[i] = lang THEN first ELSE rest])

\* The languages the host reports for the repository of the input
InputLanguages == LanguageMapping(input.n, input.k, input.first, input.rest)

\* The languages of a second repository: the first k again, of `rest` bytes
OtherLanguages == LanguageMapping(input.k, 0, 0, input.rest)

\* The analysis of a repository with the given languages, before its skills
AnalysisOf(repo_name, languages) ==
    [basic_info |-> [name |-> repo_name,
                     languages |-> languages,
                     commits |-> JArr(HostCommits(repo_name)),
                     readme |-> JStr(HostReadme(repo_name)),
                     topics |-> JArr(HostTopics(repo_name))],
     libraries |-> RepoLibraries(repo_name),
     complexity |-> RepoComplexity(repo_name),
     patterns |-> RepoPatterns(repo_name)]

InitLanguages ==
    /\ now = 0
    /\ cache = EmptyCache
    /\ disk = EmptyDisk
    /\ input \in {i \in [n : 1..MaxLanguages, k : 0..2, first : ByteCounts, rest : ByteCounts] :
                      i.k <= i.n}
    /\ op = "init"
    /\ outcome = None
    /\ result = None
    /\ trace = [calls |-> 0]

\* _generate_skill_metrics on the analysis of the repository
GenerateSkillMetrics ==
    /\ op' = "_generate_skill_metrics"
    /\ result' = generate_skill_metrics(AnalysisOf("api", InputLanguages))
    /\ trace' = [calls |-> 1]
    /\ UNCHANGED <<now, cache, input, outcome, disk>>

\* The aggregation of generate_skills_summary over the analyses of the two
\* repositories
SummariseRepos ==
    /\ op' = "skills_summary"
    /\ result' = SkillsSummary("alice", <<AnalysisOf("api", InputLanguages),
                                          AnalysisOf("web", OtherLanguages)>>)
    /\ trace' = [calls |-> 1]
    /\ UNCHANGED <<now, cache, input, outcome, disk>>

NextLanguages == GenerateSkillMetrics \/ SummariseRepos

SpecLanguages == InitLanguages /\ [][NextLanguages]_vars

-----------------------------------------------------------------------------
(* Properties of the language percentages *)

Abs(x) == IF x < 0 THEN -x ELSE x

\* The bytes the percentages of the state are taken of: those of the
\* repository, or the sums over the two repositories
BytesTaken ==
    LET mine == InputLanguages.at
        other == OtherLanguages.at
    IN  [lang \in DOMAIN mine |->
            IF op = "skills_summary" /\ lang \in DOMAIN other
            THEN mine[lang] + other[lang] ELSE mine[lang]]

\* The sum of the percentages of a languages mapping, in hundredths of a percent
SumOfPercentages(languages) ==
    SumSeq([i \in 1..Len(languages.order) |-> languages.at[languages.order[i]].percentage])

\* Where the total of the bytes is > 0, every language of the mapping has its
\* bytes and bytes / total * 100 to two decimals (the hundredth nearest to the
\* exact quotient; {Go: 800, TS: 200} gives 80.0 and 20.0), and the
\* percentages sum to 100 within the tolerance, given in hundredths.
PercentagesRounded(tolerance) ==
    LET bytes == BytesTaken
        total == SumSeq([i \in 1..input.n |-> bytes[LanguageName(i)]])
        computed == result.languages
    IN  op \in {"_generate_skill_metrics", "skills_summary"} /\ total > 0 =>
            /\ DOMAIN computed.at = DOMAIN bytes
            /\ \A lang \in DOMAIN bytes :
                  /\ computed.at[lang].bytes = bytes[lang]
                  /\ 2 * Abs(computed.at[lang].percentage * total - bytes[lang] * 10000)
                        <= total
            /\ bytes = [Go |-> 800, TS |-> 200] =>
                  computed.at = [Go |-> [bytes |-> 800, percentage |-> 8000],
                                 TS |-> [bytes |-> 200, percentage |-> 2000]]
            /\ Abs(SumOfPercentages(computed) - 10000) <= tolerance

-----------------------------------------------------------------------------
(* The aggregation of generate_skills_summary over the per-repository entries
   of github_data['repos'], taken in every order *)

\* The repositories the entries are about; the clone of "broken" failed
AggregatedRepos == {"api", "web", "docs", "tools", "ml", "broken"}

\* The entry analyze_repo gives for the repository
EntryOf(repo_name) ==
    IF repo_name = "broken"
    THEN [error |-> "Failed to clone repository",
          basic_info |-> AnalysisOf(repo_name, HostLanguages(repo_name)).basic_info]
    ELSE WithSkills(AnalysisOf(repo_name, HostLanguages(repo_name)))

EntriesOf(repo_names) == [i \in 1..Len(repo_names) |-> EntryOf(repo_names[i])]

InitAggregation ==
    /\ now = 0
    /\ cache = EmptyCache
    /\ disk = EmptyDisk
    /\ input \in [username : {"alice"},
                   repos : {repo_names \in SeqsUpTo(AggregatedRepos, MaxEntries) :
                              \A i, j \in 1..Len(repo_names) :
                                  i # j => repo_names[i] # repo_names[j]}]
    /\ op = "init"
    /\ outcome = None
    /\ result = None
    /\ trace = [calls |-> 0]

\* Lines 670-764 of generate_skills_summary on the entries in the input's order
AggregateEntries ==
    /\ trace.calls = 0
    /\ op' = "skills_summary"
    /\ result' = SkillsSummary(input.username, EntriesOf(input.repos))
    /\ trace' = [calls |-> 1]
    /\ UNCHANGED <<now, cache, input, outcome, disk>>

NextAggregation == AggregateEntries

SpecAggregation == InitAggregation /\ [][NextAggregation]_vars

\* The orders the repositories of the input can be taken in
Orderings ==
    {order \in [1..Len(input.repos) -> SetOf(input.repos)] :
        \A i, j \in 1..Len(input.repos) : i # j => order[i] # order[j]}

\* C16: the aggregation of generate_skills_summary is order-independent: for
\* every other order of the same entries the languages mapping, the
\* top_libraries mapping (the libraries kept and their counts), the framework
\* set, the code metrics and the practice percentages are the same.
C16_OrderIndependent ==
    op = "skills_summary" =>
        \A order \in Orderings :
            LET other == SkillsSummary(input.username, EntriesOf(order))
            IN  /\ other.languages.at = result.languages.at
                /\ other.top_libraries.at = result.top_libraries.at
                /\ other.frameworks = result.frameworks
                /\ other.code_metrics = result.code_metrics
                /\ other.practices = result.practices

-----------------------------------------------------------------------------
(* analyze_code_complexity over the functions lizard finds in the code files of
   a clone, in the order the files are analyzed and the functions listed *)

\* "if func.cyclomatic_complexity > 10": the high-complexity threshold
HIGH_COMPLEXITY_THRESHOLD == 10

\* "[:10]": keep only top 10
TopFunctions == 10

\* The functions appended to results['high_complexity_functions'] by the loop
OverThreshold(functions) ==
    LET keep(func) == func.ccn > HIGH_COMPLEXITY_THRESHOLD IN FilterSeq(keep, functions)

\* sorted(xs, key=lambda x: x['ccn'], reverse=True): by descending complexity,
\* the sort being stable; the entry at rank r has r - 1 entries before it.
SortByCcn(xs) ==
    LET Before(i, j) == xs[i].ccn > xs[j].ccn \/ (xs[i].ccn = xs[j].ccn /\ i < j)
        Rank(j) == Cardinality({i \in 1..Len(xs) : Before(i, j)}) + 1
    IN  [r \in 1..Len(xs) |-> xs[CHOOSE j \in 1..Len(xs) : Rank(j) = r]]

HighComplexityFunctionsAscending(functions) ==
    LET sorted == SortByCcn(OverThreshold(functions))
        kept == IF Len(sorted) < TopFunctions THEN Len(sorted) ELSE TopFunctions
    IN  [r \in 1..kept |-> sorted[Len(sorted) + 1 - r]]

\* results['high_complexity_functions'] as returned (lines 295-318)
HighComplexityFunctions(functions) ==
    LET sorted == SortByCcn(OverThreshold(functions))
    IN  SubSeq(sorted, 1, IF Len(sorted) < TopFunctions THEN Len(sorted) ELSE TopFunctions)

\* results['summary'] (lines 258-311), the averages in hundredths
ComplexitySummary(functions) ==
    LET total_ccn == SumSeq([i \in 1..Len(functions) |-> functions[i].ccn])
        total_nloc == SumSeq([i \in 1..Len(functions) |-> functions[i].nloc])
        function_count == Len(functions)
    IN  IF function_count > 0
        THEN [avg_complexity |-> RoundedQuotient(total_ccn * 100, function_count).v,
              avg_nloc |-> RoundedQuotient(total_nloc * 100, function_count).v,
              total_functions |-> function_count]
        ELSE [avg_complexity |-> 0, avg_nloc |-> 0, total_functions |-> 0]

\* The results of analyze_code_complexity for the functions found
CodeComplexity(functions) ==
    [summary |-> ComplexitySummary(functions),
     high_complexity_functions |-> HighComplexityFunctions(functions)]

\* The cyclomatic complexities the functions come with: under, at and over the
\* threshold
Complexities == {1, 10, 11, 15, 30}

\* n functions: in blocks the first k have complexity `first` and the others
\* `rest`; mixed, the two complexities alternate
FunctionsFound(n, k, first, rest, mixed) ==
    [i \in 1..n |->
        [name |-> "f" \o ToString(i),
         file |-> "src/m" \o ToString((i + 1) \div 2) \o ".py",
         ccn |-> IF mixed THEN (IF i % 2 = 1 THEN first ELSE rest)
                 ELSE (IF i <= k THEN first ELSE rest),
         nloc |-> 5 + i,
         params |-> i % 3]]

InputFunctions == FunctionsFound(input.n, input.k, input.first, input.rest, input.mixed)

InitComplexity ==
    /\ now = 0
    /\ cache = EmptyCache
    /\ disk = EmptyDisk
    /\ input \in {i \in [n : 0..MaxFunctions, k : 0..MaxFunctions, first : Complexities,
                          rest : Complexities, mixed : BOOLEAN] :
                      i.k <= i.n /\ (i.mixed => i.k = 0)}
    /\ op = "init"
    /\ outcome = None
    /\ result = None
    /\ trace = [calls |-> 0]

AnalyzeCodeComplexity ==
    /\ trace.calls = 0
    /\ op' = "analyze_code_complexity"
    /\ result' = CodeComplexity(InputFunctions)
    /\ trace' = [calls |-> 1]
    /\ UNCHANGED <<now, cache, input, outcome, disk>>

NextComplexity == AnalyzeCodeComplexity

SpecComplexity == InitComplexity /\ [][NextComplexity]_vars

\* Where the function was encountered
EncounteredAt(func) == CHOOSE i \in 1..Len(InputFunctions) : InputFunctions[i] = func

\* The listed functions are the `count` first of `candidates` by descending
\* complexity, equal complexities in encounter order, and are listed so
TopByComplexity(high, candidates, count) ==
    /\ Len(high) = count
    /\ SetOf(high) \subseteq candidates
    /\ \A i, j \in 1..Len(high) :
          i < j => \/ high[i].ccn > high[j].ccn
                   \/ /\ high[i].ccn = high[j].ccn
                      /\ EncounteredAt(high[i]) < EncounteredAt(high[j])
    /\ \A omitted \in candidates \ SetOf(high) :
          \A i \in 1..Len(high) :
              \/ omitted.ccn < high[i].ccn
              \/ /\ omitted.ccn = high[i].ccn
                 /\ EncounteredAt(high[i]) < EncounteredAt(omitted)

\* C17 as stated: high_complexity_functions holds the min(10, number of
\* analyzed functions) functions of highest complexity among all analyzed
\* functions, by descending complexity, equal complexities in encounter order.
C17_AsStated ==
    op = "analyze_code_complexity" =>
        TopByComplexity(result.high_complexity_functions, SetOf(InputFunctions),
                        IF Len(InputFunctions) < 10 THEN Len(InputFunctions) ELSE 10)

\* C17: high_complexity_functions holds, of the analyzed functions whose
\* complexity is over 10, the min(10, their number) of highest complexity, by
\* descending complexity, equal complexities in encounter order; a function of
\* complexity 10 or less is never listed.
C17_TopOverThreshold ==
    op = "analyze_code_complexity" =>
        LET over == {func \in SetOf(InputFunctions) : func.ccn > 10}
        IN  TopByComplexity(result.high_complexity_functions, over,
                            IF Cardinality(over) < 10 THEN Cardinality(over) ELSE 10)

\* Twelve functions, complexities 30 and 15 alternating: the six of 30 come
\* first, then the first four of 15, each group in encounter order
C17_Witness ==
    /\ op = "analyze_code_complexity"
    /\ input = [n |-> 12, k |-> 0, first |-> 15, rest |-> 30, mixed |-> TRUE]
    /\ [i \in 1..10 |-> result.high_complexity_functions[i].name]
          = <<"f2", "f4", "f6", "f8", "f10", "f12", "f1", "f3", "f5", "f7">>

-----------------------------------------------------------------------------
(* identify_libraries on a cache miss, its walk over the clone taken file by
   file: trace holds the position of the two loops (the directory os.walk has
   yielded and the next file of it), file_count and the libraries Counter. *)

\* "if file_count > 500": the limit for large repositories
FileCountLimit == 500

\* the 20 of libraries.most_common(20)
MostCommonLibraries == 20

\* The clone walked
WalkedPath == "/tmp/gh_api_0"

LibraryName(n) == "lib" \o ToString(n)

\* The file os.walk lists at position i of directory d: its extension and the
\* libraries the import patterns find in its content.  In a mixed tree every
\* third file is no source file and the others are Python and TypeScript.
FileAt(d, i) ==
    [ext |-> IF ~input.mixed THEN ".py"
             ELSE IF i % 3 = 0 THEN ".md" ELSE IF i % 3 = 1 THEN ".py" ELSE ".ts",
     imports |-> <<LibraryName((7 * d + i) % (MostCommonLibraries + 2))>>]

\* lang for the extension, None for a file the loop passes over
LanguageOf(ext) ==
    IF ext = ".py" THEN JStr("Python")
    ELSE IF ext \in {".js", ".jsx", ".ts", ".tsx"} THEN JStr("JavaScript")
    ELSE None

\* libraries[lib] += 1 for every match in the file
RECURSIVE CountImports(_, _)
CountImports(libraries, imports) ==
    IF imports = <<>> THEN libraries
    ELSE CountImports(CounterAdd(libraries, Head(imports), 1), Tail(imports))

DirectorySizes == {0, 1, MaxFiles \div 2, MaxFiles}

InitWalk ==
    /\ now = 0
    /\ cache = EmptyCache
    /\ disk = [path \in {WalkedPath} |-> "api"]
    /\ input \in [username : {"alice"}, dirs : SeqsUpTo(DirectorySizes, 2), mixed : BOOLEAN]
    /\ op = "init"
    /\ outcome = None
    /\ result = None
    /\ trace = [pc |-> "walk", dir |-> 1, file |-> 1, file_count |-> 0,
                libraries |-> EmptyDict]

\* The inner loop is at a file of the directory
AtFile ==
    /\ trace.pc = "walk"
    /\ trace.dir <= Len(input.dirs)
    /\ trace.file <= input.dirs[trace.dir]

\* "if file_count > 500: break": the rest of the directory is left out
BreakAtLimit ==
    /\ AtFile
    /\ trace.file_count > FileCountLimit
    /\ trace' = [trace EXCEPT !.dir = @ + 1, !.file = 1]
    /\ UNCHANGED <<now, cache, input, op, outcome, result, disk>>

\* "else: continue": no source file
SkipFile ==
    /\ AtFile
    /\ trace.file_count <= FileCountLimit
    /\ LanguageOf(FileAt(trace.dir, trace.file).ext) = None
    /\ trace' = [trace EXCEPT !.file = @ + 1]
    /\ UNCHANGED <<now, cache, input, op, outcome, result, disk>>

\* file_count += 1, the file is opened and its imports are counted
ScanFile ==
    /\ AtFile
    /\ trace.file_count <= FileCountLimit
    /\ LanguageOf(FileAt(trace.dir, trace.file).ext) # None
    /\ trace' = [trace EXCEPT
                    !.file = @ + 1,
                    !.file_count = @ + 1,
                    !.libraries = CountImports(@, FileAt(trace.dir, trace.file).imports)]
    /\ UNCHANGED <<now, cache, input, op, outcome, result, disk>>

\* The files of the directory are through: os.walk yields the next directory
NextDirectory ==
    /\ trace.pc = "walk"
    /\ trace.dir <= Len(input.dirs)
    /\ trace.file > input.dirs[trace.dir]
    /\ trace' = [trace EXCEPT !.dir = @ + 1, !.file = 1]
    /\ UNCHANGED <<now, cache, input, op, outcome, result, disk>>

\* The walk is over: the 20 most common libraries are cached and returned
ReturnLibraries ==
    /\ trace.pc = "walk"
    /\ trace.dir > Len(input.dirs)
    /\ \E found \in {MostCommonDict(trace.libraries, MostCommonLibraries)} :
        /\ result' = found
        /\ cache' = CacheSet(cache,
                             GitHubCacheKey(input.username, "repo_libraries", <<WalkedPath>>),
                             found, GITHUB_CACHE_TIMEOUT, now)
    /\ op' = "identify_libraries"
    /\ trace' = [trace EXCEPT !.pc = "done"]
    /\ UNCHANGED <<now, input, outcome, disk>>

NextWalk == BreakAtLimit \/ SkipFile \/ ScanFile \/ NextDirectory \/ ReturnLibraries

SpecWalk == InitWalk /\ [][NextWalk]_vars

\* C18: identify_libraries opens and matches at most 500 source files, across
\* all directories walked, and returns at most 20 libraries.
C18_AtMost500Files ==
    /\ trace.file_count <= 500
    /\ op = "identify_libraries" => Len(result.order) <= 20

====
